---- MODULE Spec2Model ----
(***************************************************************************)
(* SynapseFlow server: request handlers and document models.               *)
(*                                                                         *)
(* Each subsystem has its own specification over the shared variables:     *)
(*   SpecTeam        team roster handlers (team.controller.js, Team model) *)
(*   SpecTeamConc    inviteToTeam interleaved with the invited account     *)
(*   SpecNotify      updateTeam and deleteTeam with their fan-out          *)
(*   SpecProject     project and submission status handlers                *)
(*   SpecProjectTeam project roster handlers and deleteProject             *)
(*   SpecSubmitConc  createSubmission requests interleaved                 *)
(*   SpecVersion     updateSubmission and the version history              *)
(*   SpecReview      judge evaluations and submission status               *)
(*   SpecJudge       judge evaluations, one handler at a time              *)
(*   SpecJudgeConc   judge evaluations, handlers interleaved at awaits     *)
(*   SpecAuth        register, login, deleteAccount, token checks          *)
(*   SpecMessage     Message model methods                                 *)
(*   SpecSocket      socket.js connection, room and relay handlers         *)
(*   SpecHackathon   a hackathon's date-derived status                     *)
(* A handler is one action unless a claim is about the interleaving of two *)
(* handlers; then the action is split at the handler's await points.       *)
(* Ids are integers: positive ids are stored accounts, GhostUser is a      *)
(* well-formed id of no stored document, BadId is a malformed id.          *)
(***************************************************************************)
EXTENDS Integers, Sequences, FiniteSets, TLC

\* ------------------------------------------------------------------ bounds
NumUsers == 3
MaxCap == 2
MaxInvites == 2
MaxRoster == 3
MaxBodyLen == 2
MaxTime == 3
MaxScreenshots == 1
NumRegs == 2
NumCreates == 2
MaxVersion == 5
NumMessages == 2
MaxThreadCount == 3
NumSockets == 2

\* --------------------------------------------------------------- constants
DefaultMaxMembers == 4
MinMaxMembers == 2
MaxMaxMembers == 10

Users == 1..NumUsers
GhostUser == 0
BadId == -1
TeamId == 100
NoValue == "<none>"

VARIABLES
  team,                 \* the stored Team document
  teamExists,           \* whether createTeam has stored it
  inviting,             \* the inviteToTeam request in progress: its position and loaded team
  now,                  \* the wall clock read by new Date() and Date.now()
  project,              \* the stored Project document
  projectExists,        \* whether createProject has stored it
  firstSubmissionDate,  \* history: submissionDate at the first move into 'submitted'
  submission,           \* the stored Submission document
  submissionExists,     \* whether createSubmission has stored it
  submissionCount,      \* number of Submission documents that name the project
  creating,             \* per createSubmission request in progress: its position
  handler,              \* per judge: the addJudgeEvaluation request in progress
  staleSave,            \* history: a save wrote over a judges list it had not loaded
  savedCount,           \* history: number of evaluations saved
  accounts,             \* the stored User documents, by id
  tokens,               \* the JWTs issued so far
  connectedUsers,       \* socket.js registry of connected users
  reg,                  \* per register request: position and response
  messages,             \* the stored Message documents, by id
  notifications,        \* the notifications stored by the handlers' fan-outs
  sockets,              \* per socket id: whether it is open, its user, the rooms it is in
  userData,             \* the values of the connectedUsers map, by user id
  emitted,              \* the events the last socket handler emitted
  hackathon,            \* the stored Hackathon document
  hackathonExists       \* whether it has been stored

teamVars == <<team, teamExists, inviting>>
projectVars == <<project, projectExists, firstSubmissionDate>>
submissionVars == <<submission, submissionExists, submissionCount, creating>>
judgeVars == <<handler, staleSave, savedCount>>
authVars == <<accounts, tokens, connectedUsers, reg>>
messageVars == <<messages>>
notifyVars == <<notifications>>
socketVars == <<sockets, userData, emitted>>
hackathonVars == <<hackathon, hackathonExists>>
vars == <<team, teamExists, inviting, now, project, projectExists, firstSubmissionDate,
          submission, submissionExists, submissionCount, creating,
          handler, staleSave, savedCount,
          accounts, tokens, connectedUsers, reg, messages, notifications,
          sockets, userData, emitted, hackathon, hackathonExists>>

\* ------------------------------------------------------------ Team model
Slot(u, r, l, s) == [userId |-> u, role |-> r, isLeader |-> l, invitationStatus |-> s]

InvitationStatuses == {"pending", "accepted", "rejected"}

\* members.filter(m => m.invitationStatus === 'accepted').length
memberCount(ms) == Cardinality({i \in DOMAIN ms : ms[i].invitationStatus = "accepted"})

availableSlots(t) == t.maxMembers - memberCount(t.members)

isFull_Strict(t) == memberCount(t.members) > t.maxMembers

isFull(t) == memberCount(t.members) >= t.maxMembers

isMember(ms, u) ==
  \E i \in DOMAIN ms : ms[i].userId = u /\ ms[i].invitationStatus = "accepted"

isLeader(ms, u) == \E i \in DOMAIN ms : ms[i].userId = u /\ ms[i].isLeader

\* Array.prototype.findIndex, 1-based; 0 stands for -1
findIndex(ms, u) ==
  IF \E i \in DOMAIN ms : ms[i].userId = u
    THEN CHOOSE i \in DOMAIN ms : ms[i].userId = u /\ \A j \in 1..(i-1) : ms[j].userId # u
    ELSE 0

findPendingIndex(ms, u) ==
  LET P(i) == ms[i].userId = u /\ ms[i].invitationStatus = "pending" IN
  IF \E i \in DOMAIN ms : P(i)
    THEN CHOOSE i \in DOMAIN ms : P(i) /\ \A j \in 1..(i-1) : ~P(j)
    ELSE 0

splice_Last(ms, i) == SubSeq(ms, 1, Len(ms) - 1)

\* members.splice(i, 1)
splice(ms, i) == [j \in 1..(Len(ms)-1) |-> IF j < i THEN ms[j] ELSE ms[j+1]]

acceptedLeaders_AnyAccepted(ms) ==
  {i \in DOMAIN ms : ms[i].invitationStatus = "accepted"}

\* the accepted slots that carry the leader flag
acceptedLeaders(ms) ==
  {i \in DOMAIN ms : ms[i].isLeader /\ ms[i].invitationStatus = "accepted"}

\* schema validators run by save()
teamValid(t) == t.maxMembers >= MinMaxMembers /\ t.maxMembers <= MaxMaxMembers

teamPreSave_KeepFlag(t) == t

\* teamSchema.pre('save'): the derived flag is recomputed on every save
teamPreSave(t) ==
  [t EXCEPT !.isLookingForMembers = memberCount(t.members) < t.maxMembers]

\* inviteMember: the document after the call, or an error
inviteMember(t, u, role) ==
  IF isFull(t) THEN [err |-> "Team is full", doc |-> t]
  ELSE LET i == findIndex(t.members, u)
           ms == IF i # 0
                   THEN IF t.members[i].invitationStatus = "rejected"
                          THEN [t.members EXCEPT ![i].invitationStatus = "pending",
                                                 ![i].role = role]
                          ELSE t.members
                   ELSE Append(t.members, Slot(u, role, FALSE, "pending"))
       IN [err |-> "",
           doc |-> teamPreSave([t EXCEPT !.members = ms,
                                         !.totalInvitesSent = t.totalInvitesSent + 1])]

\* removeMember: the document after the call, or an error
removeMember(t, u) ==
  LET i == findIndex(t.members, u) IN
  IF i = 0 THEN [err |-> "Member not found in team", doc |-> t]
  ELSE IF t.members[i].isLeader /\ Cardinality(acceptedLeaders(t.members)) <= 1
    THEN [err |-> "Cannot remove the last team leader", doc |-> t]
    ELSE [err |-> "", doc |-> teamPreSave([t EXCEPT !.members = splice(t.members, i)])]

NoTeam ==
  [members |-> <<>>, maxMembers |-> DefaultMaxMembers, isPublic |-> TRUE,
   isLookingForMembers |-> TRUE, totalInvitesSent |-> 0, status |-> "forming"]

\* ------------------------------------------------------- Team controller
\* What a handler leaves behind: the document to store and the response.
Reply(doc, status, error) == [doc |-> doc, status |-> status, error |-> error]

TeamIds == {TeamId, BadId}
UserIds == Users \cup {GhostUser, BadId}
Absent == 0
BodyRoles == {NoValue, "Designer"}

\* role || 'Team Member'
roleOrDefault(role) == IF role = NoValue THEN "Team Member" ELSE role

\* maxMembers || 4
maxMembersOrDefault(n) == IF n = Absent THEN DefaultMaxMembers ELSE n

createTeam(caller, bodyMax, regOpen) ==
  IF bodyMax # Absent /\ (bodyMax < MinMaxMembers \/ bodyMax > MaxMaxMembers)
    THEN Reply(NoTeam, 400, "Team size must be between 2 and 10")
  ELSE IF ~regOpen
    THEN Reply(NoTeam, 400, "Hackathon registration is not currently open")
  ELSE Reply(teamPreSave([NoTeam EXCEPT
                 !.maxMembers = maxMembersOrDefault(bodyMax),
                 !.members = <<Slot(caller, "Team Leader", TRUE, "accepted")>>]),
             201, "")

\* updateTeam; assigned is the loaded document after Object.assign(team, body)
updateTeam(t, exists, caller, tid, assigned) ==
  IF tid = BadId THEN Reply(t, 400, "Invalid team ID")
  ELSE IF ~exists THEN Reply(t, 404, "Team not found")
  ELSE IF ~isLeader(t.members, caller)
    THEN Reply(t, 403, "Only team leader can update the team")
  ELSE IF ~teamValid(assigned) THEN Reply(t, 400, "ValidationError")
  ELSE Reply(teamPreSave(assigned), 200, "")

inviteToTeam(t, exists, caller, tid, userId, role) ==
  IF tid = BadId \/ userId = BadId THEN Reply(t, 400, "Invalid ID format")
  ELSE IF ~exists THEN Reply(t, 404, "Team not found")
  ELSE IF ~isMember(t.members, caller)
    THEN Reply(t, 403, "Not authorized to invite users to this team")
  ELSE IF isFull(t) THEN Reply(t, 400, "Team is full")
  ELSE IF userId \notin Users THEN Reply(t, 404, "User not found")
  ELSE LET i == findIndex(t.members, userId) IN
    IF i # 0 /\ t.members[i].invitationStatus = "pending"
      THEN Reply(t, 400, "User already has a pending invitation")
    ELSE IF i # 0 /\ t.members[i].invitationStatus = "accepted"
      THEN Reply(t, 400, "User is already a team member")
    ELSE LET r == inviteMember(t, userId, roleOrDefault(role)) IN
      IF r.err # "" THEN Reply(t, 500, r.err) ELSE Reply(r.doc, 200, "")

respondToInvitation(t, exists, caller, tid, accept) ==
  IF tid = BadId THEN Reply(t, 400, "Invalid team ID")
  ELSE IF ~exists THEN Reply(t, 404, "Team not found")
  ELSE LET i == findPendingIndex(t.members, caller) IN
    IF i = 0 THEN Reply(t, 404, "No pending invitation found")
    ELSE Reply(teamPreSave([t EXCEPT !.members[i].invitationStatus =
                              IF accept THEN "accepted" ELSE "rejected"]), 200, "")

requestToJoin(t, exists, caller, tid) ==
  IF tid = BadId THEN Reply(t, 400, "Invalid team ID")
  ELSE IF ~exists THEN Reply(t, 404, "Team not found")
  ELSE IF ~t.isPublic \/ ~t.isLookingForMembers
    THEN Reply(t, 400, "Team is not accepting new members")
  ELSE IF isFull(t) THEN Reply(t, 400, "Team is full")
  ELSE LET i == findIndex(t.members, caller) IN
    IF i # 0 /\ t.members[i].invitationStatus = "pending"
      THEN Reply(t, 400, "You already have a pending invitation")
    ELSE IF i # 0 /\ t.members[i].invitationStatus = "accepted"
      THEN Reply(t, 400, "You are already a team member")
    ELSE Reply(teamPreSave([t EXCEPT !.members =
                 Append(t.members, Slot(caller, "Requested", FALSE, "pending"))]), 200, "")

removeMemberHandler(t, exists, caller, tid, memberId) ==
  IF tid = BadId \/ memberId = BadId THEN Reply(t, 400, "Invalid ID format")
  ELSE IF ~exists THEN Reply(t, 404, "Team not found")
  ELSE IF ~isLeader(t.members, caller)
    THEN Reply(t, 403, "Only team leader can remove team members")
  ELSE IF memberId = caller /\ Cardinality(acceptedLeaders(t.members)) <= 1
    THEN Reply(t, 400, "Cannot remove the only team leader")
  ELSE LET r == removeMember(t, memberId) IN
    IF r.err # "" THEN Reply(t, 500, r.err) ELSE Reply(r.doc, 200, "")

leaveTeam(t, exists, caller, tid) ==
  IF tid = BadId THEN Reply(t, 400, "Invalid team ID")
  ELSE IF ~exists THEN Reply(t, 404, "Team not found")
  ELSE IF ~isMember(t.members, caller)
    THEN Reply(t, 400, "You are not a member of this team")
  ELSE IF isLeader(t.members, caller) /\ Cardinality(acceptedLeaders(t.members)) <= 1
    THEN Reply(t, 400, "Cannot leave as the only team leader. Promote another leader first.")
  ELSE LET r == removeMember(t, caller) IN
    IF r.err # "" THEN Reply(t, 500, r.err) ELSE Reply(r.doc, 200, "")

deleteTeam(t, exists, caller, tid) ==
  IF tid = BadId THEN Reply(t, 400, "Invalid team ID")
  ELSE IF ~exists THEN Reply(t, 404, "Team not found")
  ELSE IF ~isLeader(t.members, caller)
    THEN Reply(t, 403, "Only team leader can delete the team")
  ELSE Reply(teamPreSave([t EXCEPT !.status = "disbanded", !.isPublic = FALSE]), 200, "")

\* ------------------------------------------------------------- getTeam
\* req.user of a request that no middleware has authenticated: undefined
NoUser == -2

\* router.get('/:id', getTeam): the route runs no protect and no optionalAuth,
\* so req.user is undefined whatever token the caller holds
publicRouteUser(caller) == NoUser

\* team.isMember(req.user?._id) as a call: some() reads userId.toString() for
\* the first slot, which throws when userId is undefined
isMemberCall(ms, u) ==
  IF u = NoUser
    THEN IF Len(ms) = 0 THEN "false" ELSE "TypeError"
    ELSE IF isMember(ms, u) THEN "true" ELSE "false"

\* getTeam behind its route; the TypeError is answered 500 by errorHandler
getTeam(t, exists, caller, tid) ==
  LET reqUser == publicRouteUser(caller) IN
  IF tid = BadId THEN Reply(t, 400, "Invalid team ID")
  ELSE IF ~exists THEN Reply(t, 404, "Team not found")
  ELSE IF t.isPublic THEN Reply(t, 200, "")
  ELSE LET m == isMemberCall(t.members, reqUser) IN
    IF m = "TypeError"
      THEN Reply(t, 500, "Cannot read properties of undefined (reading 'toString')")
    ELSE IF m = "false" THEN Reply(t, 403, "Not authorized to view this team")
    ELSE Reply(t, 200, "")

\* ------------------------------------ inviteToTeam split at its await
NotInviting ==
  [pc |-> "idle", doc |-> NoTeam, caller |-> GhostUser, userId |-> GhostUser,
   role |-> NoValue]

\* inviteToTeam up to `await User.findById(userId)`: the checks on the team
\* it has loaded
inviteLoad(t, exists, caller, tid, userId) ==
  IF tid = BadId \/ userId = BadId THEN Reply(t, 400, "Invalid ID format")
  ELSE IF ~exists THEN Reply(t, 404, "Team not found")
  ELSE IF ~isMember(t.members, caller)
    THEN Reply(t, 403, "Not authorized to invite users to this team")
  ELSE IF isFull(t) THEN Reply(t, 400, "Team is full")
  ELSE Reply(t, 0, "")

\* team.save() of a document loaded as old and changed to new, against the
\* stored one: a pushed slot is a $push, a changed slot is a $set on its
\* index that requires the version it was loaded with, and a push by another
\* request has incremented that version
saveTeam(stored, old, new) ==
  IF Len(new.members) = Len(old.members) + 1
    THEN Reply([stored EXCEPT !.members = Append(@, new.members[Len(new.members)]),
                              !.totalInvitesSent = new.totalInvitesSent,
                              !.isLookingForMembers =
                                 IF new.isLookingForMembers # old.isLookingForMembers
                                   THEN new.isLookingForMembers ELSE @],
               200, "")
  ELSE IF new.members # old.members /\ Len(stored.members) # Len(old.members)
    THEN Reply(stored, 500, "VersionError")
  ELSE Reply([stored EXCEPT
                !.members = [i \in DOMAIN @ |->
                               IF new.members[i] # old.members[i] THEN new.members[i]
                               ELSE @[i]],
                !.totalInvitesSent = new.totalInvitesSent,
                !.isLookingForMembers =
                   IF new.isLookingForMembers # old.isLookingForMembers
                     THEN new.isLookingForMembers ELSE @],
             200, "")

\* inviteToTeam from the await on, on the team it loaded before
inviteSave(stored, old, caller, userId, role) ==
  LET r == inviteToTeam(old, TRUE, caller, TeamId, userId, role) IN
    IF r.error # "" THEN Reply(stored, r.status, r.error)
    ELSE saveTeam(stored, old, r.doc)

InviteLoad(caller, tid, userId, role) ==
  /\ inviting.pc = "idle"
  /\ LET r == inviteLoad(team, teamExists, caller, tid, userId) IN
       inviting' = IF r.error = ""
                     THEN [pc |-> "loaded", doc |-> team, caller |-> caller,
                           userId |-> userId, role |-> role]
                     ELSE NotInviting
  /\ UNCHANGED <<now, team, teamExists, projectVars, submissionVars, judgeVars, authVars,
                 messageVars, notifyVars, socketVars, hackathonVars>>

InviteSave ==
  /\ inviting.pc = "loaded"
  /\ team' = inviteSave(team, inviting.doc, inviting.caller, inviting.userId,
                        inviting.role).doc
  /\ team'.totalInvitesSent <= MaxInvites /\ Len(team'.members) <= MaxRoster
  /\ inviting' = NotInviting
  /\ UNCHANGED <<now, teamExists, projectVars, submissionVars, judgeVars, authVars,
                 messageVars, notifyVars, socketVars, hackathonVars>>

\* -------------------------------------------------- Notification fan-out
\* the accounts that updateTeam and deleteTeam write a notification for
updateTeamRecipients(t, caller) ==
  {t.members[i].userId : i \in {j \in DOMAIN t.members :
       t.members[j].invitationStatus = "accepted" /\ t.members[j].userId # caller}}

deleteTeamRecipients(t) ==
  {t.members[i].userId : i \in {j \in DOMAIN t.members :
       t.members[j].invitationStatus = "accepted"}}

\* await Promise.all(recipients.map(async m => { await Notification.create(..) })):
\* every insert is started, failing holds the accounts whose insert rejects,
\* and Promise.all rejects when one of them does
fanOut(recipients, failing) ==
  [stored |-> recipients \ failing,
   error |-> IF recipients \cap failing # {} THEN "Notification insert failed" ELSE ""]

\* the answer of a handler whose document is saved before the fan-out: a
\* rejection reaches asyncHandler's catch and errorHandler answers 500
Notified(r, recipients, failing) ==
  IF r.error # ""
    THEN [doc |-> r.doc, status |-> r.status, error |-> r.error, stored |-> {}]
    ELSE LET f == fanOut(recipients, failing) IN
      [doc |-> r.doc, status |-> IF f.error # "" THEN 500 ELSE r.status,
       error |-> f.error, stored |-> f.stored]

updateTeamNotified(t, exists, caller, tid, assigned, failing) ==
  LET r == updateTeam(t, exists, caller, tid, assigned) IN
    Notified(r, updateTeamRecipients(r.doc, caller), failing)

deleteTeamNotified(t, exists, caller, tid, failing) ==
  LET r == deleteTeam(t, exists, caller, tid) IN
    Notified(r, deleteTeamRecipients(r.doc), failing)

\* --------------------------------------------------------- Team requests
\* updateTeam assigns req.body to the document unfiltered, so a body may
\* carry a members array, maxMembers or isPublic.  Body rosters are drawn
\* from accepted slots; pending and rejected slots arise from the handlers.
BodyStatuses == {"accepted"}
BodySlots ==
  {Slot(u, "Team Member", l, st) : u \in Users, l \in BOOLEAN, st \in BodyStatuses}

RECURSIVE SeqsUpTo(_, _)
SeqsUpTo(S, n) ==
  IF n = 0 THEN {<<>>}
  ELSE LET shorter == SeqsUpTo(S, n - 1) IN
       shorter \cup {Append(q, x) : q \in {r \in shorter : Len(r) = n - 1}, x \in S}

BodyMembers == SeqsUpTo(BodySlots, MaxBodyLen)
BodyMaxMembers == 1..MaxCap

\* Requests <<caller, team id, ...>>: every well-formed request, and one
\* with a malformed team id (it is answered before anything is read).
CreateRequests == Users \X ({Absent} \cup BodyMaxMembers) \X BOOLEAN
UpdateMembersRequests == (Users \X {TeamId} \X BodyMembers) \cup {<<1, BadId, <<>>>>}
UpdateMaxRequests == (Users \X {TeamId} \X BodyMaxMembers) \cup {<<1, BadId, 1>>}
UpdatePublicRequests == (Users \X {TeamId} \X BOOLEAN) \cup {<<1, BadId, TRUE>>}
UpdateLookingRequests == (Users \X {TeamId} \X BOOLEAN) \cup {<<1, BadId, TRUE>>}
InviteRequests == (Users \X {TeamId} \X UserIds \X BodyRoles) \cup {<<1, BadId, 1, NoValue>>}
RespondRequests == (Users \X {TeamId} \X BOOLEAN) \cup {<<1, BadId, TRUE>>}
JoinRequests == (Users \X {TeamId}) \cup {<<1, BadId>>}
RemoveRequests == (Users \X {TeamId} \X UserIds) \cup {<<1, BadId, 1>>}
LeaveRequests == (Users \X {TeamId}) \cup {<<1, BadId>>}

\* A handler that throws stores nothing: the step leaves the document as it
\* was, and the answer is the Reply the handler operator gives for the
\* state and the request.
TeamStep(op, r) ==
  /\ team' = r.doc
  /\ UNCHANGED <<now, inviting, projectVars, submissionVars, judgeVars, authVars, messageVars, notifyVars, socketVars,
                 hackathonVars>>

CreateTeam(caller, bodyMax, regOpen) ==
  /\ ~teamExists
  /\ LET r == createTeam(caller, bodyMax, regOpen) IN
       /\ TeamStep("createTeam", r)
       /\ teamExists' = (r.error = "")

UpdateTeamMembers(caller, tid, ms) ==
  /\ TeamStep("updateTeam",
              updateTeam(team, teamExists, caller, tid, [team EXCEPT !.members = ms]))
  /\ UNCHANGED teamExists

UpdateTeamMaxMembers(caller, tid, n) ==
  /\ TeamStep("updateTeam",
              updateTeam(team, teamExists, caller, tid, [team EXCEPT !.maxMembers = n]))
  /\ UNCHANGED teamExists

UpdateTeamIsPublic(caller, tid, b) ==
  /\ TeamStep("updateTeam",
              updateTeam(team, teamExists, caller, tid, [team EXCEPT !.isPublic = b]))
  /\ UNCHANGED teamExists

UpdateTeamIsLookingForMembers(caller, tid, b) ==
  /\ TeamStep("updateTeam",
              updateTeam(team, teamExists, caller, tid,
                         [team EXCEPT !.isLookingForMembers = b]))
  /\ UNCHANGED teamExists

FailingSets == SUBSET Users
DeleteTeamRequests == (Users \X {TeamId}) \cup {<<1, BadId>>}

NotifiedStep(r) ==
  /\ team' = r.doc
  /\ notifications' = notifications \cup r.stored
  /\ UNCHANGED <<now, teamExists, inviting, projectVars, submissionVars, judgeVars,
                 authVars, messageVars, socketVars, hackathonVars>>

UpdateTeamNotified(caller, tid, n, failing) ==
  NotifiedStep(updateTeamNotified(team, teamExists, caller, tid,
                                  [team EXCEPT !.maxMembers = n], failing))

DeleteTeamNotified(caller, tid, failing) ==
  NotifiedStep(deleteTeamNotified(team, teamExists, caller, tid, failing))

\* the model's bounds on the counter and on the roster stop growth only
WithinBounds(t) == t.totalInvitesSent <= MaxInvites /\ Len(t.members) <= MaxRoster

InviteToTeam(caller, tid, userId, role) ==
  /\ TeamStep("inviteToTeam", inviteToTeam(team, teamExists, caller, tid, userId, role))
  /\ WithinBounds(team')
  /\ UNCHANGED teamExists

RespondToInvitation(caller, tid, accept) ==
  /\ TeamStep("respondToInvitation",
              respondToInvitation(team, teamExists, caller, tid, accept))
  /\ UNCHANGED teamExists

RequestToJoin(caller, tid) ==
  /\ TeamStep("requestToJoin", requestToJoin(team, teamExists, caller, tid))
  /\ WithinBounds(team')
  /\ UNCHANGED teamExists

RemoveMember(caller, tid, memberId) ==
  /\ TeamStep("removeMember",
              removeMemberHandler(team, teamExists, caller, tid, memberId))
  /\ UNCHANGED teamExists

LeaveTeam(caller, tid) ==
  /\ TeamStep("leaveTeam", leaveTeam(team, teamExists, caller, tid))
  /\ UNCHANGED teamExists

\* ---------------------------------------------------------------- clock
\* time passes between requests
Tick ==
  /\ now < MaxTime
  /\ now' = now + 1
  /\ UNCHANGED <<teamVars, projectVars, submissionVars, judgeVars, authVars, messageVars, notifyVars, socketVars,
                 hackathonVars>>

\* --------------------------------------------------------- Hackathon model
\* the stored hackathon runs from HackathonStart to HackathonEnd
HackathonStart == 1
HackathonEnd == 2

isActive(t) == t >= HackathonStart /\ t <= HackathonEnd

isSubmissionOpen(t) == t >= HackathonStart /\ t <= HackathonEnd

\* ----------------------------------------------------------- Project model
\* null in a Date field
NoDate == -1
ProjectId == 200
SubmissionId == 300
ScreenshotLimit == 5
MinTeamSize == 1
MaxTeamSize == 10

ProjectStatuses ==
  {"draft", "in_progress", "submitted", "under_review", "selected", "winner", "completed"}

SubmissionStatuses ==
  {"draft", "submitted", "under_review", "accepted", "rejected", "winner",
   "runner_up", "honorable_mention"}

Roles == {"participant", "judge", "admin", "mentor"}

\* repoUrl and videoUrl: whether the field holds a non-empty string
NoProject ==
  [status |-> "draft", submissionDate |-> NoDate, team |-> <<>>, teamSize |-> 0,
   repoUrl |-> FALSE, videoUrl |-> FALSE, screenshots |-> 0, isPublic |-> TRUE]

isTeamMember(p, u) == \E i \in DOMAIN p.team : p.team[i].userId = u

\* schema validators run by save()
projectValid(p) ==
  /\ p.status \in ProjectStatuses
  /\ p.teamSize >= MinTeamSize /\ p.teamSize <= MaxTeamSize

\* projectSchema.pre('save'); old is the document as loaded, t the clock
projectPreSave(old, p, t) ==
  LET q == IF p.team # old.team THEN [p EXCEPT !.teamSize = Len(p.team)] ELSE p IN
  IF q.status # old.status /\ q.status = "submitted" /\ q.submissionDate = NoDate
    THEN [q EXCEPT !.submissionDate = t]
    ELSE q

\* ------------------------------------------------------ Project controller
ProjectIds == {ProjectId, BadId}

createProject(caller, bodyValid, t) ==
  IF ~bodyValid THEN Reply(NoProject, 400, "Title is required")
  ELSE IF ~isActive(t) THEN Reply(NoProject, 400, "Hackathon is not currently active")
  ELSE Reply(projectPreSave(NoProject,
                 [NoProject EXCEPT !.team = <<[userId |-> caller, role |-> "Team Lead"]>>,
                                   !.teamSize = 1,
                                   !.repoUrl = TRUE,
                                   !.videoUrl = TRUE], t),
             201, "")

\* updateProject; assigned is the loaded document after Object.assign(project, body)
updateProject(p, exists, caller, pid, assigned, t) ==
  IF pid = BadId THEN Reply(p, 400, "Invalid project ID")
  ELSE IF ~exists THEN Reply(p, 404, "Project not found")
  ELSE IF ~isTeamMember(p, caller)
    THEN Reply(p, 403, "Not authorized to update this project")
  ELSE IF ~projectValid(assigned) THEN Reply(p, 400, "ValidationError")
  ELSE Reply(projectPreSave(p, assigned, t), 200, "")

uploadScreenshots(p, exists, caller, pid, files) ==
  IF files = 0 THEN Reply(p, 400, "Please upload at least one screenshot")
  ELSE IF pid = BadId THEN Reply(p, 400, "Invalid project ID")
  ELSE IF ~exists THEN Reply(p, 404, "Project not found")
  ELSE IF ~isTeamMember(p, caller)
    THEN Reply(p, 403, "Not authorized to upload screenshots for this project")
  ELSE IF p.screenshots + files > ScreenshotLimit
    THEN Reply(p, 400, "Maximum 5 screenshots allowed")
  ELSE Reply([p EXCEPT !.screenshots = p.screenshots + files], 200, "")

submitProject(p, exists, caller, pid, t) ==
  IF pid = BadId THEN Reply(p, 400, "Invalid project ID")
  ELSE IF ~exists THEN Reply(p, 404, "Project not found")
  ELSE IF ~isTeamMember(p, caller)
    THEN Reply(p, 403, "Not authorized to submit this project")
  ELSE IF ~p.repoUrl THEN Reply(p, 400, "GitHub repository URL is required")
  ELSE IF ~p.videoUrl THEN Reply(p, 400, "Demo video URL is required")
  ELSE IF p.screenshots = 0 THEN Reply(p, 400, "At least one screenshot is required")
  ELSE Reply(projectPreSave(p, [p EXCEPT !.status = "submitted",
                                         !.submissionDate = t], t), 200, "")

\* project.team.some(member => member.userId = u && member.role === 'Team Lead')
isProjectLeader(p, u) ==
  \E i \in DOMAIN p.team : p.team[i].userId = u /\ p.team[i].role = "Team Lead"

teamUsers(p) == {p.team[i].userId : i \in DOMAIN p.team}

\* a handler's answer with the notifications it stored
Stored(r, inserts) ==
  [doc |-> r.doc, status |-> r.status, error |-> r.error,
   stored |-> IF r.error = "" THEN inserts ELSE {}]

\* deleteProject: the soft delete is validated by save() like any other write
deleteProject(p, exists, caller, pid, t) ==
  IF pid = BadId THEN Reply(p, 400, "Invalid project ID")
  ELSE IF ~exists THEN Reply(p, 404, "Project not found")
  ELSE IF ~isProjectLeader(p, caller)
    THEN Reply(p, 403, "Only team leader can delete the project")
  ELSE LET a == [p EXCEPT !.status = "deleted", !.isPublic = FALSE] IN
    IF ~projectValid(a) THEN Reply(p, 400, "ValidationError")
    ELSE Reply(projectPreSave(p, a, t), 200, "")

deleteProjectNotified(p, exists, caller, pid, t) ==
  LET r == deleteProject(p, exists, caller, pid, t) IN
    Stored(r, {<<u, "Project Deleted">> : u \in teamUsers(r.doc)})

\* addTeamMember: the limit it compares the roster with is the stored teamSize
addTeamMember(p, exists, caller, pid, userId, role, t) ==
  IF pid = BadId \/ userId = BadId THEN Reply(p, 400, "Invalid ID format")
  ELSE IF ~exists THEN Reply(p, 404, "Project not found")
  ELSE IF ~isTeamMember(p, caller)
    THEN Reply(p, 403, "Not authorized to add team members")
  ELSE IF userId \notin Users THEN Reply(p, 404, "User not found")
  ELSE IF isTeamMember(p, userId) THEN Reply(p, 400, "User is already a team member")
  ELSE IF Len(p.team) >= p.teamSize THEN Reply(p, 400, "Team size limit reached")
  ELSE LET a == [p EXCEPT !.team = Append(@, [userId |-> userId,
                                               role |-> roleOrDefault(role)])] IN
    IF ~projectValid(a) THEN Reply(p, 400, "ValidationError")
    ELSE Reply(projectPreSave(p, a, t), 200, "")

addTeamMemberNotified(p, exists, caller, pid, userId, role, t) ==
  Stored(addTeamMember(p, exists, caller, pid, userId, role, t),
         {<<userId, "Added to Project Team">>})

\* project.team.findIndex(member => member.userId.toString() === memberId)
findTeamIndex(p, u) ==
  IF isTeamMember(p, u)
    THEN CHOOSE i \in DOMAIN p.team :
           p.team[i].userId = u /\ \A j \in 1..(i - 1) : p.team[j].userId # u
    ELSE 0

projectLeaders(p) == {i \in DOMAIN p.team : p.team[i].role = "Team Lead"}

removeTeamMember(p, exists, caller, pid, memberId, t) ==
  IF pid = BadId \/ memberId = BadId THEN Reply(p, 400, "Invalid ID format")
  ELSE IF ~exists THEN Reply(p, 404, "Project not found")
  ELSE IF ~isProjectLeader(p, caller)
    THEN Reply(p, 403, "Only team leader can remove team members")
  ELSE IF findTeamIndex(p, memberId) = 0 THEN Reply(p, 404, "Team member not found")
  ELSE IF memberId = caller /\ Cardinality(projectLeaders(p)) <= 1
    THEN Reply(p, 400, "Cannot remove the only team leader")
  ELSE LET a == [p EXCEPT !.team = splice(@, findTeamIndex(p, memberId))] IN
    IF ~projectValid(a) THEN Reply(p, 400, "ValidationError")
    ELSE Reply(projectPreSave(p, a, t), 200, "")

removeTeamMemberNotified(p, exists, caller, pid, memberId, t) ==
  Stored(removeTeamMember(p, exists, caller, pid, memberId, t),
         {<<memberId, "Removed from Project Team">>})

\* -------------------------------------------------------- Submission model
Criteria == {"innovation", "execution", "presentation", "impact", "completeness"}
MinScore == 0
MaxScore == 10
MaxTotalScore == 50
MaxAverageScore == 10

\* Numbers that calculateScores produces are quotients of integers; they are
\* kept exact, in lowest terms, so that equal numbers are equal values.
RECURSIVE GCD(_, _)
GCD(a, b) == IF b = 0 THEN a ELSE GCD(b, a % b)

Rat(n, d) == LET g == GCD(n, d) IN [num |-> n \div g, den |-> d \div g]

Zero == Rat(0, 1)

RatAdd(a, b) == Rat(a.num * b.den + b.num * a.den, a.den * b.den)

RatDiv(a, k) == Rat(a.num, a.den * k)

RatInRange(a, lo, hi) == a.num >= lo * a.den /\ a.num <= hi * a.den

Vec(i, e, p, m, c) ==
  [innovation |-> i, execution |-> e, presentation |-> p, impact |-> m, completeness |-> c]

\* the judges list of a request body: one evaluation with the highest scores
BodyJudges == <<[judgeId |-> 1, scores |-> Vec(10, 10, 10, 10, 10)]>>

\* content stands for title, summary and assets; NoContent for a body without them
NoContent == -1
Contents == {0, 1}

NoSubmission ==
  [judges |-> <<>>, scores |-> [c \in Criteria |-> Zero], totalScore |-> Zero,
   averageScore |-> Zero, status |-> "draft", content |-> 0, version |-> 1,
   previousVersions |-> <<>>]

\* scoreSums[criteria] after the forEach over the judges
RECURSIVE scoreSum(_, _)
scoreSum(js, c) == IF js = <<>> THEN 0 ELSE js[1].scores[c] + scoreSum(Tail(js), c)

calculateScores_OverCount(s) ==
  IF Len(s.judges) = 0 THEN s
  ELSE LET sc == [c \in Criteria |-> Rat(scoreSum(s.judges, c), Len(s.judges) + 1)]
           total == RatAdd(RatAdd(RatAdd(RatAdd(sc["innovation"], sc["execution"]),
                      sc["presentation"]), sc["impact"]), sc["completeness"])
       IN [s EXCEPT !.scores = sc, !.totalScore = total,
                    !.averageScore = RatDiv(total, Cardinality(Criteria))]

calculateScores(s) ==
  IF Len(s.judges) = 0 THEN s
  ELSE LET sc == [c \in Criteria |-> Rat(scoreSum(s.judges, c), Len(s.judges))]
           total == RatAdd(RatAdd(RatAdd(RatAdd(sc["innovation"], sc["execution"]),
                      sc["presentation"]), sc["impact"]), sc["completeness"])
       IN [s EXCEPT !.scores = sc, !.totalScore = total,
                    !.averageScore = RatDiv(total, Cardinality(Criteria))]

\* schema validators run by save()
submissionValid(s) ==
  /\ s.status \in SubmissionStatuses
  /\ \A i \in DOMAIN s.judges : \A c \in Criteria :
       s.judges[i].scores[c] >= MinScore /\ s.judges[i].scores[c] <= MaxScore
  /\ \A c \in Criteria : RatInRange(s.scores[c], MinScore, MaxScore)
  /\ RatInRange(s.totalScore, 0, MaxTotalScore)
  /\ RatInRange(s.averageScore, 0, MaxAverageScore)

\* submissionSchema.pre('save'); old is the document as loaded
submissionPreSave(old, s) ==
  IF s.judges # old.judges /\ Len(s.judges) > 0 THEN calculateScores(s) ELSE s

findJudge(js, j) ==
  IF \E i \in DOMAIN js : js[i].judgeId = j
    THEN CHOOSE i \in DOMAIN js : js[i].judgeId = j /\ \A k \in 1..(i-1) : js[k].judgeId # j
    ELSE 0

addJudgeEvaluation_AnyStatus(s, judgeId, scores) ==
  LET i == findJudge(s.judges, judgeId)
      e == [judgeId |-> judgeId, scores |-> scores]
      js == IF i # 0 THEN [s.judges EXCEPT ![i] = e] ELSE Append(s.judges, e)
      c == calculateScores([s EXCEPT !.judges = js])
  IN [c EXCEPT !.status = "under_review"]

\* addJudgeEvaluation up to its save(): the document held in memory
addJudgeEvaluation(s, judgeId, scores) ==
  LET i == findJudge(s.judges, judgeId)
      e == [judgeId |-> judgeId, scores |-> scores]
      js == IF i # 0 THEN [s.judges EXCEPT ![i] = e] ELSE Append(s.judges, e)
      c == calculateScores([s EXCEPT !.judges = js])
  IN IF c.status = "submitted" \/ c.status = "under_review"
       THEN [c EXCEPT !.status = "under_review"]
       ELSE c

\* save() sends the modified paths only: elements pushed onto judges are
\* appended to the stored array, every other modified path is set.
saveSubmission_WholeDocument(stored, old, s) == s

saveSubmission(stored, old, s) ==
  [judges |-> IF Len(s.judges) > Len(old.judges)
                THEN stored.judges \o SubSeq(s.judges, Len(old.judges) + 1, Len(s.judges))
                ELSE IF s.judges # old.judges THEN s.judges ELSE stored.judges,
   scores |-> [c \in Criteria |->
                 IF s.scores[c] # old.scores[c] THEN s.scores[c] ELSE stored.scores[c]],
   totalScore |-> IF s.totalScore # old.totalScore THEN s.totalScore ELSE stored.totalScore,
   averageScore |-> IF s.averageScore # old.averageScore
                      THEN s.averageScore ELSE stored.averageScore,
   status |-> IF s.status # old.status THEN s.status ELSE stored.status,
   content |-> IF s.content # old.content THEN s.content ELSE stored.content,
   version |-> IF s.version # old.version THEN s.version ELSE stored.version,
   previousVersions |->
     IF s.previousVersions # old.previousVersions
       THEN s.previousVersions ELSE stored.previousVersions]

\* saveVersion: the pre-update data is pushed onto previousVersions
VersionEntry(s) ==
  [version |-> s.version,
   data |-> [content |-> s.content, scores |-> s.scores, status |-> s.status]]

saveVersion(s) ==
  [s EXCEPT !.previousVersions = Append(@, VersionEntry(s)), !.version = @ + 1]

\* --------------------------------------------------- Submission controller
SubmissionIds == {SubmissionId, BadId}

\* what a handler that writes both documents leaves behind
DualReply(p, s, sx, status, error) ==
  [project |-> p, submission |-> s, submissionExists |-> sx, status |-> status,
   error |-> error]

projectIdUnique_NoIndex(sexists) == TRUE

\* the unique index on Submission.projectId admits an insert for the project
projectIdUnique(sexists) == ~sexists

createSubmission(p, pexists, s, sexists, caller, pid, bodyValid, teamLinked, t) ==
  IF pid = BadId THEN DualReply(p, s, sexists, 400, "Valid project ID is required")
  ELSE IF ~bodyValid THEN DualReply(p, s, sexists, 400, "Title is required")
  ELSE IF ~pexists THEN DualReply(p, s, sexists, 404, "Project not found")
  ELSE IF ~isTeamMember(p, caller)
    THEN DualReply(p, s, sexists, 403, "Not authorized to submit for this project")
  ELSE IF p.status = "submitted" \/ p.status = "under_review"
    THEN DualReply(p, s, sexists, 400, "Project already submitted")
  ELSE IF ~teamLinked THEN DualReply(p, s, sexists, 404, "Team not found for this project")
  ELSE IF ~isSubmissionOpen(t) /\ ~(t > HackathonEnd)
    THEN DualReply(p, s, sexists, 400, "Submission period is not open yet")
  ELSE IF ~projectIdUnique(sexists)
    THEN DualReply(p, s, sexists, 400, "Duplicate field value entered")
  ELSE DualReply(projectPreSave(p, [p EXCEPT !.status = "submitted",
                                             !.submissionDate = t], t),
                 [NoSubmission EXCEPT !.status = "submitted"], TRUE, 201, "")

\* the controller up to the model's save(): an answer, or the document to save
addJudgeEvaluationHandler(s, sexists, caller, role, sid, scores) ==
  IF sid = BadId THEN [error |-> "Invalid submission ID", status |-> 400, doc |-> s]
  ELSE IF role # "judge" /\ role # "admin"
    THEN [error |-> "Only judges can evaluate submissions", status |-> 403, doc |-> s]
  ELSE IF ~sexists THEN [error |-> "Submission not found", status |-> 404, doc |-> s]
  ELSE IF findJudge(s.judges, caller) # 0
    THEN [error |-> "You have already evaluated this submission", status |-> 400, doc |-> s]
  ELSE LET d == submissionPreSave(s, addJudgeEvaluation(s, caller, scores)) IN
    IF ~submissionValid(d) THEN [error |-> "ValidationError", status |-> 400, doc |-> s]
    ELSE [error |-> "", status |-> 200, doc |-> d]

updateSubmissionStatus_Rollback(p, pexists, s, sexists, role, sid, status, t) ==
  IF sid = BadId THEN DualReply(p, s, sexists, 400, "Invalid submission ID")
  ELSE IF role # "admin" /\ role # "judge"
    THEN DualReply(p, s, sexists, 403, "Not authorized to update submission status")
  ELSE IF ~sexists THEN DualReply(p, s, sexists, 404, "Submission not found")
  ELSE LET s2 == [s EXCEPT !.status = status]
           p2 == [p EXCEPT !.status = status]
       IN IF ~submissionValid(s2) THEN DualReply(p, s, sexists, 400, "ValidationError")
          ELSE IF ~pexists THEN DualReply(p, s2, sexists, 200, "")
          ELSE IF ~projectValid(p2) THEN DualReply(p, s, sexists, 400, "ValidationError")
          ELSE DualReply(projectPreSave(p, p2, t), s2, sexists, 200, "")

\* updateSubmissionStatus: submission.save(), then project.save()
updateSubmissionStatus(p, pexists, s, sexists, role, sid, status, t) ==
  IF sid = BadId THEN DualReply(p, s, sexists, 400, "Invalid submission ID")
  ELSE IF role # "admin" /\ role # "judge"
    THEN DualReply(p, s, sexists, 403, "Not authorized to update submission status")
  ELSE IF ~sexists THEN DualReply(p, s, sexists, 404, "Submission not found")
  ELSE LET s2 == [s EXCEPT !.status = status]
           p2 == [p EXCEPT !.status = status]
       IN IF ~submissionValid(s2) THEN DualReply(p, s, sexists, 400, "ValidationError")
          ELSE IF ~pexists THEN DualReply(p, s2, sexists, 200, "")
          ELSE IF ~projectValid(p2) THEN DualReply(p, s2, sexists, 400, "ValidationError")
          ELSE DualReply(projectPreSave(p, p2, t), s2, sexists, 200, "")

deleteSubmission(p, pexists, s, sexists, role, sid, t) ==
  IF sid = BadId THEN DualReply(p, s, sexists, 400, "Invalid submission ID")
  ELSE IF role # "admin"
    THEN DualReply(p, s, sexists, 403, "Only admins can delete submissions")
  ELSE IF ~sexists THEN DualReply(p, s, sexists, 404, "Submission not found")
  ELSE LET s2 == [s EXCEPT !.status = "rejected"]
           p2 == [p EXCEPT !.status = "rejected"]
       IN IF ~pexists THEN DualReply(p, s2, sexists, 200, "")
          ELSE IF ~projectValid(p2) THEN DualReply(p, s2, sexists, 400, "ValidationError")
          ELSE DualReply(projectPreSave(p, p2, t), s2, sexists, 200, "")

\* Object.assign(submission, req.body): the body may carry any path
assignBody(s, body) ==
  [s EXCEPT !.content = IF body.content = NoContent THEN @ ELSE body.content,
            !.previousVersions = IF body.previousVersions = "empty" THEN <<>> ELSE @,
            !.status = IF body.status = NoValue THEN @ ELSE body.status,
            !.judges = IF body.judges = "absent" THEN @ ELSE BodyJudges]

\* updateSubmission: saveVersion() stores the document once, the second
\* save() stores it with the body assigned and the version raised again
updateSubmission(p, pexists, s, sexists, caller, sid, body, t) ==
  IF sid = BadId THEN Reply(s, 400, "Invalid submission ID")
  ELSE IF ~sexists THEN Reply(s, 404, "Submission not found")
  ELSE IF ~pexists \/ ~isTeamMember(p, caller)
    THEN Reply(s, 403, "Not authorized to update this submission")
  ELSE IF s.status # "draft" /\ s.status # "submitted"
    THEN Reply(s, 400, "Submission cannot be updated in current status")
  ELSE IF ~isSubmissionOpen(t) /\ t > HackathonEnd
    THEN Reply(s, 400, "Submission period has ended")
  ELSE LET v == saveVersion(s)
           a == assignBody(v, body)
       IN IF ~submissionValid(a) THEN Reply(v, 400, "ValidationError")
          ELSE Reply(submissionPreSave(v, [a EXCEPT !.version = @ + 1]), 200, "")

\* --------------------------------- Project and submission requests, actions
\* updateProject assigns req.body to the document unfiltered, so a body may
\* carry status, submissionDate or repoUrl.
BodyProjectStatuses == ProjectStatuses \cup {"rejected"}
BodyDates == {NoDate, 0}
BodySubmissionStatuses == SubmissionStatuses \cup ProjectStatuses
BodyFiles == {0, 1}
SubmissionBodies ==
  [content : Contents \cup {NoContent}, previousVersions : {"absent", "empty"},
   status : {NoValue, "winner"}, judges : {"absent", "set"}]

CreateProjectRequests == Users \X BOOLEAN
UpdateStatusRequests ==
  (Users \X {ProjectId} \X BodyProjectStatuses) \cup {<<1, BadId, "draft">>}
UpdateDateRequests == (Users \X {ProjectId} \X BodyDates) \cup {<<1, BadId, NoDate>>}
UpdateRepoUrlRequests == (Users \X {ProjectId} \X BOOLEAN) \cup {<<1, BadId, TRUE>>}
UploadRequests == (Users \X {ProjectId} \X BodyFiles) \cup {<<1, BadId, 1>>}
SubmitRequests == (Users \X {ProjectId}) \cup {<<1, BadId>>}
CreateSubmissionRequests ==
  (Users \X {ProjectId} \X BOOLEAN \X BOOLEAN) \cup {<<1, BadId, TRUE, TRUE>>}
SubmissionStatusRequests ==
  (Roles \X {SubmissionId} \X BodySubmissionStatuses) \cup {<<"admin", BadId, "accepted">>}
DeleteSubmissionRequests == (Roles \X {SubmissionId}) \cup {<<"admin", BadId>>}
UpdateSubmissionRequests ==
  (Users \X {SubmissionId} \X SubmissionBodies)
    \cup {<<1, BadId, [content |-> NoContent, previousVersions |-> "absent",
                       status |-> NoValue, judges |-> "absent"]>>}

\* history: the submissionDate stored by the first move into 'submitted'
FirstSubmission(p2) ==
  IF firstSubmissionDate = NoDate /\ project.status # "submitted" /\ p2.status = "submitted"
    THEN p2.submissionDate
    ELSE firstSubmissionDate

ProjectStep(p2) ==
  /\ project' = p2
  /\ firstSubmissionDate' = FirstSubmission(p2)
  /\ UNCHANGED <<now, projectExists, teamVars, judgeVars, authVars, messageVars, notifyVars, socketVars,
                 hackathonVars>>

CreateProject(caller, bodyValid) ==
  /\ ~projectExists
  /\ LET r == createProject(caller, bodyValid, now) IN
       /\ project' = r.doc
       /\ projectExists' = (r.error = "")
  /\ UNCHANGED <<now, firstSubmissionDate, teamVars, submissionVars, judgeVars, authVars, messageVars, notifyVars, socketVars,
                 hackathonVars>>

UpdateProjectStatus(caller, pid, st) ==
  /\ ProjectStep(updateProject(project, projectExists, caller, pid,
                               [project EXCEPT !.status = st], now).doc)
  /\ UNCHANGED submissionVars

UpdateProjectSubmissionDate(caller, pid, d) ==
  /\ ProjectStep(updateProject(project, projectExists, caller, pid,
                               [project EXCEPT !.submissionDate = d], now).doc)
  /\ UNCHANGED submissionVars

UpdateProjectRepoUrl(caller, pid, b) ==
  /\ ProjectStep(updateProject(project, projectExists, caller, pid,
                               [project EXCEPT !.repoUrl = b], now).doc)
  /\ UNCHANGED submissionVars

UploadScreenshots(caller, pid, files) ==
  /\ ProjectStep(uploadScreenshots(project, projectExists, caller, pid, files).doc)
  /\ project'.screenshots <= MaxScreenshots
  /\ UNCHANGED submissionVars

\* teamSize values of an updateProject body; 0 and 11 break the schema's range
BodyTeamSizes == {0, 2, 3, 11}
UpdateTeamSizeRequests ==
  (Users \X {ProjectId} \X BodyTeamSizes) \cup {<<1, BadId, 2>>}
ProjectMemberRequests ==
  (Users \X {ProjectId} \X (Users \cup {GhostUser})) \cup {<<1, BadId, 1>>, <<1, ProjectId, BadId>>}
ProjectBodyRoles == {NoValue, "Team Lead"}
DeleteProjectRequests == (Users \X {ProjectId}) \cup {<<1, BadId>>}

UpdateProjectTeamSize(caller, pid, n) ==
  /\ ProjectStep(updateProject(project, projectExists, caller, pid,
                               [project EXCEPT !.teamSize = n], now).doc)
  /\ UNCHANGED submissionVars

\* a handler that saves the project and then stores its notifications
StoredStep(r) ==
  /\ project' = r.doc
  /\ notifications' = notifications \cup r.stored
  /\ UNCHANGED <<now, projectExists, firstSubmissionDate, submissionVars, teamVars,
                 judgeVars, authVars, messageVars, socketVars, hackathonVars>>

AddTeamMember(caller, pid, userId, role) ==
  StoredStep(addTeamMemberNotified(project, projectExists, caller, pid, userId, role, now))

RemoveTeamMember(caller, pid, memberId) ==
  StoredStep(removeTeamMemberNotified(project, projectExists, caller, pid, memberId, now))

DeleteProject(caller, pid) ==
  StoredStep(deleteProjectNotified(project, projectExists, caller, pid, now))

SubmitProject(caller, pid) ==
  /\ ProjectStep(submitProject(project, projectExists, caller, pid, now).doc)
  /\ UNCHANGED submissionVars

CreateSubmission(caller, pid, bodyValid, teamLinked) ==
  LET r == createSubmission(project, projectExists, submission, submissionExists,
                            caller, pid, bodyValid, teamLinked, now) IN
    /\ ProjectStep(r.project)
    /\ submission' = r.submission
    /\ submissionExists' = r.submissionExists
    /\ submissionCount' = IF r.error = "" THEN submissionCount + 1 ELSE submissionCount
    /\ UNCHANGED creating

\* the save of a loaded project: the modified paths are written
saveProject(stored, old, p) ==
  [f \in DOMAIN p |-> IF p[f] # old[f] THEN p[f] ELSE stored[f]]

Creates == 1..NumCreates
NotCreating == [pc |-> "idle", old |-> NoProject]

\* createSubmission up to the await of Submission.create: the project is
\* loaded and the request is checked against it
SubmissionCheck(r, caller, pid, bodyValid, teamLinked) ==
  /\ creating[r].pc = "idle"
  /\ LET a == createSubmission(project, projectExists, submission, FALSE,
                               caller, pid, bodyValid, teamLinked, now) IN
       creating' = IF a.error = ""
                     THEN [creating EXCEPT ![r] = [pc |-> "checked", old |-> project]]
                     ELSE creating
  /\ UNCHANGED <<now, submission, submissionExists, submissionCount, projectVars,
                 teamVars, judgeVars, authVars, messageVars, notifyVars, socketVars,
                 hackathonVars>>

\* Submission.create: an insert that the unique index refuses is answered 400
SubmissionInsert(r) ==
  /\ creating[r].pc = "checked"
  /\ IF projectIdUnique(submissionExists)
       THEN /\ submission' = [NoSubmission EXCEPT !.status = "submitted"]
            /\ submissionExists' = TRUE
            /\ submissionCount' = submissionCount + 1
            /\ creating' = [creating EXCEPT ![r].pc = "inserted"]
       ELSE /\ creating' = [creating EXCEPT ![r] = NotCreating]
            /\ UNCHANGED <<submission, submissionExists, submissionCount>>
  /\ UNCHANGED <<now, projectVars, teamVars, judgeVars, authVars, messageVars, notifyVars, socketVars,
                 hackathonVars>>

\* project.status = 'submitted', project.submissionDate = new Date(), save()
SubmissionProjectSave(r) ==
  /\ creating[r].pc = "inserted"
  /\ LET old == creating[r].old
         p2 == projectPreSave(old, [old EXCEPT !.status = "submitted",
                                              !.submissionDate = now], now)
     IN ProjectStep(saveProject(project, old, p2))
  /\ creating' = [creating EXCEPT ![r] = NotCreating]
  /\ UNCHANGED <<submission, submissionExists, submissionCount>>

UpdateSubmission(caller, sid, body) ==
  /\ submission' = updateSubmission(project, projectExists, submission, submissionExists,
                                    caller, sid, body, now).doc
  /\ submission'.version <= MaxVersion
  /\ UNCHANGED <<now, submissionExists, submissionCount, creating, projectVars,
                 teamVars, judgeVars, authVars, messageVars, notifyVars, socketVars,
                 hackathonVars>>

UpdateSubmissionStatus(role, sid, st) ==
  LET r == updateSubmissionStatus(project, projectExists, submission, submissionExists,
                                  role, sid, st, now) IN
    /\ ProjectStep(r.project)
    /\ submission' = r.submission
    /\ UNCHANGED <<submissionExists, submissionCount, creating>>

DeleteSubmission(role, sid) ==
  LET r == deleteSubmission(project, projectExists, submission, submissionExists,
                            role, sid, now) IN
    /\ ProjectStep(r.project)
    /\ submission' = r.submission
    /\ UNCHANGED <<submissionExists, submissionCount, creating>>

\* --------------------------------------------- Judge requests, actions
\* score vectors of a request body; the last one breaks the schema's maximum
ScoreVectors ==
  {Vec(8, 7, 9, 6, 8), Vec(6, 9, 7, 8, 7), Vec(0, 0, 0, 0, 0), Vec(10, 10, 10, 10, 10),
   Vec(11, 5, 5, 5, 5)}

JudgeRequests ==
  (Users \X {"judge", "admin"} \X {SubmissionId} \X ScoreVectors)
    \cup {<<1, "participant", SubmissionId, Vec(8, 7, 9, 6, 8)>>,
          <<1, "judge", BadId, Vec(8, 7, 9, 6, 8)>>}

\* the evaluations of one score vector, and the one the schema refuses
ReviewRequests ==
  {q \in JudgeRequests : q[4] \in {Vec(8, 7, 9, 6, 8), Vec(11, 5, 5, 5, 5)}}

Idle == [pc |-> "idle", old |-> NoSubmission, doc |-> NoSubmission]

\* the whole handler, when no other request runs between its load and its save
AddJudgeEvaluation(caller, role, sid, scores) ==
  LET r == addJudgeEvaluationHandler(submission, submissionExists, caller, role, sid, scores) IN
    /\ submission' = IF r.error = "" THEN saveSubmission(submission, submission, r.doc)
                     ELSE submission
    /\ savedCount' = IF r.error = "" THEN savedCount + 1 ELSE savedCount
    /\ UNCHANGED <<now, submissionExists, submissionCount, creating, handler, staleSave,
                   teamVars, projectVars, authVars, messageVars, notifyVars, socketVars,
                 hackathonVars>>

\* the handler up to its save(): findById, the checks, the in-memory update
JudgeLoad(caller, role, sid, scores) ==
  /\ handler[caller].pc = "idle"
  /\ LET r == addJudgeEvaluationHandler(submission, submissionExists, caller, role, sid, scores) IN
       handler' = IF r.error = ""
                    THEN [handler EXCEPT ![caller] =
                            [pc |-> "saving", old |-> submission, doc |-> r.doc]]
                    ELSE handler
  /\ UNCHANGED <<now, submissionVars, staleSave, savedCount, teamVars, projectVars, authVars, messageVars, notifyVars, socketVars,
                 hackathonVars>>

\* the write that save() sends
JudgeSave(caller) ==
  /\ handler[caller].pc = "saving"
  /\ submission' = saveSubmission(submission, handler[caller].old, handler[caller].doc)
  /\ handler' = [handler EXCEPT ![caller] = Idle]
  /\ staleSave' = (staleSave \/ submission.judges # handler[caller].old.judges)
  /\ savedCount' = savedCount + 1
  /\ UNCHANGED <<now, submissionExists, submissionCount, creating, teamVars, projectVars,
                 authVars, messageVars, notifyVars, socketVars,
                 hackathonVars>>

\* -------------------------------------------------------------- User model
EmailNames == {"ann@x.io", "Ann@x.io", "bob@x.io"}
Passwords == {"password1", "password2"}

\* an address as typed, and the address deleteAccount builds from it
Email(n) == [name |-> n, deletedAt |-> NoDate]

DeletedEmail(t, e) == [name |-> e.name, deletedAt |-> t]

\* the schema's lowercase option, applied to stored values and to queries
lowercase(e) == [e EXCEPT !.name = IF e.name = "Ann@x.io" THEN "ann@x.io" ELSE e.name]

\* userSchema.pre('save') bcrypt.hash, and comparePassword
hash(pw) == <<"bcrypt", pw>>

comparePassword(candidate, stored) == hash(candidate) = stored

\* User.findOne({ email }): the id of the account, 0 if none
findOneByEmail(accs, e) ==
  IF \E i \in DOMAIN accs : accs[i].email = lowercase(e)
    THEN CHOOSE i \in DOMAIN accs : accs[i].email = lowercase(e)
    ELSE 0

\* jwt.sign: a token names its user and the secret that signed it
AccessToken(u) == [userId |-> u, kind |-> "access"]

RefreshToken(u) == [userId |-> u, kind |-> "refresh"]

ForgedToken == [userId |-> 1, kind |-> "forged"]

\* ---------------------------------------------------------- Auth controller
Answer(status, error, userId) == [status |-> status, error |-> error, userId |-> userId]

\* register up to User.create: the findOne check
registerCheck(accs, e, bodyValid) ==
  IF ~bodyValid THEN Answer(400, "Please provide a valid email", 0)
  ELSE IF findOneByEmail(accs, e) # 0 THEN Answer(400, "User already exists", 0)
  ELSE Answer(0, "", 0)

\* User.create against the unique index on email, as errorHandler answers it
registerCreate(accs, e) ==
  IF findOneByEmail(accs, e) # 0 THEN Answer(400, "Duplicate field value entered", 0)
  ELSE Answer(201, "", Len(accs) + 1)

login(accs, e, pw) ==
  IF pw = NoValue THEN Answer(400, "Please provide email and password", 0)
  ELSE LET u == findOneByEmail(accs, e) IN
    IF u = 0 THEN Answer(401, "Invalid credentials", 0)
    ELSE IF ~accs[u].isActive THEN Answer(403, "Account has been deactivated", 0)
    ELSE IF ~comparePassword(pw, accs[u].password) THEN Answer(401, "Invalid credentials", 0)
    ELSE Answer(200, "", u)

\* protect: errors thrown inside its try block are answered 401
protect(accs, tok) ==
  IF tok.kind # "access" THEN Answer(401, "Invalid token", 0)
  ELSE IF tok.userId \notin DOMAIN accs THEN Answer(401, "Not authorized", 0)
  ELSE IF ~accs[tok.userId].isActive THEN Answer(401, "Not authorized", 0)
  ELSE Answer(200, "", tok.userId)

refreshToken(accs, tok) ==
  IF tok.kind # "refresh" THEN Answer(401, "Invalid refresh token", 0)
  ELSE IF tok.userId \notin DOMAIN accs THEN Answer(401, "Invalid refresh token", 0)
  ELSE Answer(200, "", tok.userId)

\* io.use: the socket handshake
socketHandshake(accs, tok) ==
  IF tok.kind # "access" THEN Answer(401, "Authentication failed", 0)
  ELSE IF tok.userId \notin DOMAIN accs THEN Answer(401, "User not found", 0)
  ELSE Answer(200, "", tok.userId)

\* deleteAccount behind protect: the accounts afterwards and the answer
deleteAccount(accs, tok, confirmPassword, t) ==
  LET a == protect(accs, tok) IN
  IF a.error # "" THEN [accounts |-> accs, answer |-> a]
  ELSE IF confirmPassword = NoValue
    THEN [accounts |-> accs, answer |-> Answer(400, "Please confirm your password", 0)]
  ELSE IF ~comparePassword(confirmPassword, accs[a.userId].password)
    THEN [accounts |-> accs, answer |-> Answer(401, "Password is incorrect", 0)]
  ELSE [accounts |-> [accs EXCEPT ![a.userId].isActive = FALSE,
                                  ![a.userId].email = DeletedEmail(t, accs[a.userId].email)],
        answer |-> Answer(200, "", a.userId)]

\* ------------------------------------------------- Auth requests, actions
Regs == 1..NumRegs
RegisterEmails == {Email(n) : n \in EmailNames}
LoginEmails == RegisterEmails \cup {DeletedEmail(t, Email("ann@x.io")) : t \in 0..MaxTime}
AccountIds == 1..NumRegs
TokenValues ==
  {AccessToken(u) : u \in AccountIds} \cup {RefreshToken(u) : u \in AccountIds}
    \cup {ForgedToken}
\* a request presents a token that was issued, or a forged one
PresentedTokens == tokens \cup {ForgedToken}
NoReg ==
  [pc |-> "idle", email |-> Email("ann@x.io"), password |-> NoValue, bodyValid |-> TRUE,
   answer |-> Answer(0, "", 0)]

\* register up to the await of User.create
RegisterCheck(r, e, pw, bodyValid) ==
  /\ reg[r].pc = "idle"
  /\ LET a == registerCheck(accounts, e, bodyValid) IN
       reg' = [reg EXCEPT ![r] =
                 [pc |-> IF a.error = "" THEN "checked" ELSE "done",
                  email |-> e, password |-> pw, bodyValid |-> bodyValid, answer |-> a]]
  /\ UNCHANGED <<now, accounts, tokens, connectedUsers, teamVars, projectVars,
                 submissionVars, judgeVars, messageVars, notifyVars, socketVars,
                 hackathonVars>>

\* User.create, generateToken and the answer
RegisterCreate(r) ==
  /\ reg[r].pc = "checked"
  /\ LET a == registerCreate(accounts, reg[r].email) IN
       /\ reg' = [reg EXCEPT ![r].pc = "done", ![r].answer = a]
       /\ accounts' = IF a.error = ""
                        THEN Append(accounts, [email |-> lowercase(reg[r].email),
                                               password |-> hash(reg[r].password),
                                               isActive |-> TRUE])
                        ELSE accounts
       /\ tokens' = IF a.error = "" THEN tokens \cup {AccessToken(a.userId)} ELSE tokens
  /\ UNCHANGED <<now, connectedUsers, teamVars, projectVars, submissionVars, judgeVars, messageVars, notifyVars, socketVars,
                 hackathonVars>>

Login(e, pw) ==
  /\ LET a == login(accounts, e, pw) IN
       tokens' = IF a.error = "" THEN tokens \cup {AccessToken(a.userId)} ELSE tokens
  /\ UNCHANGED <<now, accounts, connectedUsers, reg, teamVars, projectVars,
                 submissionVars, judgeVars, messageVars, notifyVars, socketVars,
                 hackathonVars>>

DeleteAccount(tok, confirmPassword) ==
  /\ tok \in PresentedTokens
  /\ accounts' = deleteAccount(accounts, tok, confirmPassword, now).accounts
  /\ UNCHANGED <<now, tokens, connectedUsers, reg, teamVars, projectVars,
                 submissionVars, judgeVars, messageVars, notifyVars, socketVars,
                 hackathonVars>>

\* user.generateRefreshToken() of an account in use
GenerateRefreshToken(u) ==
  /\ u \in DOMAIN accounts
  /\ accounts[u].isActive
  /\ tokens' = tokens \cup {RefreshToken(u)}
  /\ UNCHANGED <<now, accounts, connectedUsers, reg, teamVars, projectVars,
                 submissionVars, judgeVars, messageVars, notifyVars, socketVars,
                 hackathonVars>>

\* the refresh middleware attaches a new access token to its response
RefreshAccessToken(tok) ==
  /\ tok \in PresentedTokens
  /\ LET a == refreshToken(accounts, tok) IN
       tokens' = IF a.error = "" THEN tokens \cup {AccessToken(a.userId)} ELSE tokens
  /\ UNCHANGED <<now, accounts, connectedUsers, reg, teamVars, projectVars,
                 submissionVars, judgeVars, messageVars, notifyVars, socketVars,
                 hackathonVars>>

SocketConnect(tok) ==
  /\ tok \in PresentedTokens
  /\ LET a == socketHandshake(accounts, tok) IN
       connectedUsers' = IF a.error = "" THEN connectedUsers \cup {a.userId}
                         ELSE connectedUsers
  /\ UNCHANGED <<now, accounts, tokens, reg, teamVars, projectVars, submissionVars,
                 judgeVars, messageVars, notifyVars, socketVars,
                 hackathonVars>>

SocketDisconnect(u) ==
  /\ u \in connectedUsers
  /\ connectedUsers' = connectedUsers \ {u}
  /\ UNCHANGED <<now, accounts, tokens, reg, teamVars, projectVars, submissionVars,
                 judgeVars, messageVars, notifyVars, socketVars,
                 hackathonVars>>

\* ----------------------------------------------------------- Message model
\* null in parentMessageId
NoMessage == 0
Emojis == {"+1"}
Reactors == {1}

NewMessage(parent, thread) ==
  [parentMessageId |-> parent, isThread |-> thread, threadCount |-> 0,
   content |-> "text", edited |-> FALSE, deleted |-> FALSE, pinned |-> FALSE,
   delivered |-> FALSE, readBy |-> <<>>, reactions |-> <<>>]

\* messageSchema.pre('save'): findByIdAndUpdate(parentMessageId, $inc threadCount)
messagePreSave(msgs, m) ==
  IF m.parentMessageId # NoMessage /\ ~m.isThread
       /\ m.parentMessageId \in DOMAIN msgs
    THEN [msgs EXCEPT ![m.parentMessageId].threadCount = @ + 1]
    ELSE msgs

\* Message.create
createMessage(msgs, parent, thread) ==
  LET m == NewMessage(parent, thread) IN Append(messagePreSave(msgs, m), m)

\* this.save() of the loaded message id: the hook runs, then the modified
\* paths are written (threadCount is none of them)
saveMessage(msgs, id, m) ==
  LET ms == messagePreSave(msgs, m) IN
    [ms EXCEPT ![id] = [m EXCEPT !.threadCount = ms[id].threadCount]]

\* reactions.findIndex(r => r.emoji === emoji), 1-based; 0 stands for -1
reactionIndex(m, emoji) ==
  IF \E i \in DOMAIN m.reactions : m.reactions[i].emoji = emoji
    THEN CHOOSE i \in DOMAIN m.reactions :
           /\ m.reactions[i].emoji = emoji
           /\ \A j \in 1..(i-1) : m.reactions[j].emoji # emoji
    ELSE 0

addReaction(msgs, id, userId, emoji) ==
  LET m == msgs[id]
      i == reactionIndex(m, emoji)
  IN saveMessage(msgs, id,
       IF i = 0
         THEN [m EXCEPT !.reactions = Append(@, [emoji |-> emoji, userIds |-> <<userId>>])]
         ELSE IF \E k \in DOMAIN m.reactions[i].userIds : m.reactions[i].userIds[k] = userId
           THEN m
           ELSE [m EXCEPT !.reactions[i].userIds = Append(@, userId)])

removeReaction(msgs, id, userId, emoji) ==
  LET m == msgs[id]
      i == reactionIndex(m, emoji)
  IN saveMessage(msgs, id,
       IF i = 0 THEN m
       ELSE LET left == SelectSeq(m.reactions[i].userIds, LAMBDA u : u # userId) IN
         IF left = <<>>
           THEN [m EXCEPT !.reactions =
                   [j \in 1..(Len(m.reactions) - 1) |->
                      IF j < i THEN m.reactions[j] ELSE m.reactions[j + 1]]]
           ELSE [m EXCEPT !.reactions[i].userIds = left])

markAsRead(msgs, id, userId) ==
  LET m == msgs[id] IN
  IF \E k \in DOMAIN m.readBy : m.readBy[k] = userId THEN msgs
  ELSE saveMessage(msgs, id, [m EXCEPT !.readBy = Append(@, userId)])

markAsDelivered(msgs, id) ==
  LET m == msgs[id] IN
  IF m.delivered THEN msgs ELSE saveMessage(msgs, id, [m EXCEPT !.delivered = TRUE])

pinMessage(msgs, id) == saveMessage(msgs, id, [msgs[id] EXCEPT !.pinned = TRUE])

unpinMessage(msgs, id) == saveMessage(msgs, id, [msgs[id] EXCEPT !.pinned = FALSE])

editMessage(msgs, id) ==
  saveMessage(msgs, id, [msgs[id] EXCEPT !.content = "new text", !.edited = TRUE])

deleteMessage(msgs, id) ==
  saveMessage(msgs, id, [msgs[id] EXCEPT !.deleted = TRUE,
                                         !.content = "[This message was deleted]"])

\* ------------------------------------------------------- Message actions
MessageIds == 1..NumMessages
ParentIds == MessageIds \cup {NoMessage}
MessageMethods ==
  {"addReaction", "removeReaction", "markAsRead", "markAsDelivered", "pinMessage",
   "unpinMessage", "editMessage", "deleteMessage"}

MessageStep(msgs) ==
  /\ \A i \in DOMAIN msgs : msgs[i].threadCount <= MaxThreadCount
  /\ messages' = msgs
  /\ UNCHANGED <<now, teamVars, projectVars, submissionVars, judgeVars, authVars, notifyVars,
                 socketVars, hackathonVars>>

CreateMessage(parent, thread) ==
  /\ Len(messages) < NumMessages
  /\ parent = NoMessage \/ parent \in DOMAIN messages
  /\ MessageStep(createMessage(messages, parent, thread))

AddReaction(id, userId, emoji) ==
  /\ id \in DOMAIN messages
  /\ MessageStep(addReaction(messages, id, userId, emoji))

RemoveReaction(id, userId, emoji) ==
  /\ id \in DOMAIN messages
  /\ MessageStep(removeReaction(messages, id, userId, emoji))

MarkAsRead(id, userId) ==
  /\ id \in DOMAIN messages
  /\ MessageStep(markAsRead(messages, id, userId))

MarkAsDelivered(id) ==
  /\ id \in DOMAIN messages
  /\ MessageStep(markAsDelivered(messages, id))

PinMessage(id) ==
  /\ id \in DOMAIN messages
  /\ MessageStep(pinMessage(messages, id))

UnpinMessage(id) ==
  /\ id \in DOMAIN messages
  /\ MessageStep(unpinMessage(messages, id))

EditMessage(id) ==
  /\ id \in DOMAIN messages
  /\ MessageStep(editMessage(messages, id))

DeleteMessage(id) ==
  /\ id \in DOMAIN messages
  /\ MessageStep(deleteMessage(messages, id))

\* ------------------------------------------------- Hackathon status by date
\* A null date is NoDate, which is below every time of the clock, as null is
\* 0 in a comparison with a Date.
HackathonStatuses ==
  {"draft", "upcoming", "registration_open", "in_progress", "judging", "completed",
   "cancelled"}

NoHackathon ==
  [registrationStart |-> 0, registrationEnd |-> 0, hackathonStart |-> 0,
   hackathonEnd |-> 0, judgingStart |-> NoDate, judgingEnd |-> NoDate,
   status |-> "draft"]

\* hackathonSchema.virtual('currentStatus') read at time t
currentStatus(h, t) ==
  IF t < h.registrationStart THEN "upcoming"
  ELSE IF t >= h.registrationStart /\ t <= h.registrationEnd THEN "registration_open"
  ELSE IF t >= h.hackathonStart /\ t <= h.hackathonEnd THEN "in_progress"
  ELSE IF t >= h.judgingStart /\ t <= h.judgingEnd THEN "judging"
  ELSE IF t > h.judgingEnd THEN "completed"
  ELSE "upcoming"

\* the controller's helper for lean documents
getCurrentStatus(h, t) ==
  IF t < h.registrationStart THEN "upcoming"
  ELSE IF t >= h.registrationStart /\ t <= h.registrationEnd THEN "registration_open"
  ELSE IF t >= h.hackathonStart /\ t <= h.hackathonEnd THEN "in_progress"
  ELSE IF t >= h.judgingStart /\ t <= h.judgingEnd THEN "judging"
  ELSE IF t > h.judgingEnd THEN "completed"
  ELSE "upcoming"

\* hackathonSchema.pre('save')
hackathonPreSave(h, t) ==
  LET statusFromDates == currentStatus(h, t) IN
    IF statusFromDates # h.status /\ h.status # "cancelled"
      THEN [h EXCEPT !.status = statusFromDates]
      ELSE h

Times == 0..MaxTime

\* the date boundaries of a hackathon, in chronological order; the judging
\* dates are both set or both null
Boundaries ==
  {h \in [registrationStart : Times, registrationEnd : Times, hackathonStart : Times,
          hackathonEnd : Times, judgingStart : Times \cup {NoDate},
          judgingEnd : Times \cup {NoDate}, status : {"draft", "cancelled"}] :
     /\ h.registrationStart <= h.registrationEnd
     /\ h.registrationEnd <= h.hackathonStart
     /\ h.hackathonStart <= h.hackathonEnd
     /\ (h.judgingStart = NoDate) = (h.judgingEnd = NoDate)
     /\ h.judgingStart # NoDate =>
          h.hackathonEnd <= h.judgingStart /\ h.judgingStart <= h.judgingEnd}

\* a hackathon document is stored: validation, the hook, the insert
StoreHackathon(h) ==
  /\ ~hackathonExists
  /\ h.status \in HackathonStatuses
  /\ hackathon' = hackathonPreSave(h, now)
  /\ hackathonExists' = TRUE
  /\ UNCHANGED <<now, teamVars, projectVars, submissionVars, judgeVars, authVars,
                 messageVars, notifyVars, socketVars>>

\* save() of the stored document
SaveHackathon ==
  /\ hackathonExists
  /\ hackathon' = hackathonPreSave(hackathon, now)
  /\ UNCHANGED <<now, hackathonExists, teamVars, projectVars, submissionVars, judgeVars,
                 authVars, messageVars, notifyVars, socketVars>>

\* ------------------------------------------------------------ Socket layer
SocketIds == 1..NumSockets
TeamRoom == "team_100"
ProjectRoom == "project_200"
Rooms == {TeamRoom, ProjectRoom}
NoRoom == "<none>"

NoSocket == [open |-> FALSE, user |-> GhostUser, rooms |-> {}]

\* the value of a key that connectedUsers does not hold
NoUserData == [socketId |-> 0, rooms |-> {}]

\* one event as one socket receives it
Event(event, room, about, to) ==
  [event |-> event, room |-> room, about |-> about, to |-> to]

\* the sockets the adapter holds for a room
roomSockets(socks, room) == {s \in SocketIds : socks[s].open /\ room \in socks[s].rooms}

\* socket.to(room).emit: every socket of the room but the sender
socketTo(socks, s, room, event) ==
  {Event(event, room, socks[s].user, t) : t \in roomSockets(socks, room) \ {s}}

\* io.to(room).emit
ioTo(socks, s, room, event) ==
  {Event(event, room, socks[s].user, t) : t \in roomSockets(socks, room)}

\* socket.emit
socketEmit(socks, s, room, event) == {Event(event, room, socks[s].user, s)}

isUserConnected(cu, u) == u \in cu

\* what the DISCONNECT handler emits: it reads the user's entry after the
\* delete; socks holds the rooms after the closing socket has left them
disconnectEmits(cu, ud, socks, s, u) ==
  IF u \in cu
    THEN UNION {{Event("room_left", r, u, t) : t \in roomSockets(socks, r) \ {s}} :
                r \in ud[u].rooms}
    ELSE {}

\* the message SEND_MESSAGE stores
sentMessage(u) ==
  [NewMessage(NoMessage, FALSE) EXCEPT !.readBy = <<u>>, !.delivered = TRUE]

SocketStep(socks, cu, ud, events) ==
  /\ sockets' = socks
  /\ connectedUsers' = cu
  /\ userData' = ud
  /\ emitted' = events
  /\ UNCHANGED <<now, accounts, tokens, reg, teamVars, projectVars, submissionVars,
                 judgeVars, notifyVars, hackathonVars>>

\* io.on(CONNECTION) of a socket whose handshake set socket.user to u
Connection(s, u) ==
  /\ ~sockets[s].open
  /\ LET socks == [sockets EXCEPT ![s] = [open |-> TRUE, user |-> u, rooms |-> {}]] IN
       SocketStep(socks, connectedUsers \cup {u},
                  [userData EXCEPT ![u] = [socketId |-> s, rooms |-> {}]],
                  socketEmit(socks, s, NoRoom, "authenticated"))
  /\ UNCHANGED messageVars

JoinRoom(s, room) ==
  /\ sockets[s].open
  /\ LET u == sockets[s].user
         socks == [sockets EXCEPT ![s].rooms = @ \cup {room}]
     IN SocketStep(socks, connectedUsers,
                   IF u \in connectedUsers
                     THEN [userData EXCEPT ![u].rooms = @ \cup {room}]
                     ELSE userData,
                   socketTo(socks, s, room, "room_joined")
                     \cup socketEmit(socks, s, room, "room_joined"))
  /\ UNCHANGED messageVars

LeaveRoom(s, room) ==
  /\ sockets[s].open
  /\ LET u == sockets[s].user
         socks == [sockets EXCEPT ![s].rooms = @ \ {room}]
     IN SocketStep(socks, connectedUsers,
                   IF u \in connectedUsers
                     THEN [userData EXCEPT ![u].rooms = @ \ {room}]
                     ELSE userData,
                   socketEmit(socks, s, room, "room_left"))
  /\ UNCHANGED messageVars

\* SEND_MESSAGE with a room id and a content
SendMessage(s, room) ==
  /\ sockets[s].open
  /\ Len(messages) < NumMessages
  /\ messages' = Append(messagePreSave(messages, sentMessage(sockets[s].user)),
                        sentMessage(sockets[s].user))
  /\ SocketStep(sockets, connectedUsers, userData,
                ioTo(sockets, s, room, "receive_message")
                  \cup socketEmit(sockets, s, room, "message_sent"))

\* TYPING and STOP_TYPING
Typing(s, room, event) ==
  /\ sockets[s].open
  /\ SocketStep(sockets, connectedUsers, userData, socketTo(sockets, s, room, event))
  /\ UNCHANGED messageVars

\* TEAM_UPDATE with data.teamId = TeamId
TeamUpdate(s) ==
  /\ sockets[s].open
  /\ SocketStep(sockets, connectedUsers, userData,
                socketTo(sockets, s, TeamRoom, "team_update"))
  /\ UNCHANGED messageVars

\* PROJECT_UPDATE with data.projectId = ProjectId
ProjectUpdate(s) ==
  /\ sockets[s].open
  /\ SocketStep(sockets, connectedUsers, userData,
                socketTo(sockets, s, ProjectRoom, "project_update"))
  /\ UNCHANGED messageVars

Ping(s) ==
  /\ sockets[s].open
  /\ SocketStep(sockets, connectedUsers, userData, socketEmit(sockets, s, NoRoom, "pong"))
  /\ UNCHANGED messageVars

\* DISCONNECT: the socket has left its rooms when the handler runs
Disconnect(s) ==
  /\ sockets[s].open
  /\ LET u == sockets[s].user
         socks == [sockets EXCEPT ![s] = NoSocket]
         cu == connectedUsers \ {u}
         ud == [userData EXCEPT ![u] = NoUserData]
     IN SocketStep(socks, cu, ud, disconnectEmits(cu, ud, socks, s, u))
  /\ UNCHANGED messageVars

\* ------------------------------------------------------------------- Init
InitTeam ==
  /\ team = NoTeam
  /\ teamExists = FALSE
  /\ inviting = NotInviting

InitProject ==
  /\ now = 0
  /\ project = NoProject
  /\ projectExists = FALSE
  /\ firstSubmissionDate = NoDate
  /\ submission = NoSubmission
  /\ submissionExists = FALSE
  /\ submissionCount = 0
  /\ creating = [r \in Creates |-> NotCreating]

InitJudge ==
  /\ handler = [j \in Users |-> Idle]
  /\ staleSave = FALSE
  /\ savedCount = 0

InitAuth ==
  /\ accounts = <<>>
  /\ tokens = {}
  /\ connectedUsers = {}
  /\ reg = [r \in Regs |-> NoReg]

InitMessage == messages = <<>>

InitNotify == notifications = {}

InitHackathon ==
  /\ hackathon = NoHackathon
  /\ hackathonExists = FALSE

InitSocket ==
  /\ sockets = [s \in SocketIds |-> NoSocket]
  /\ userData = [u \in Users |-> NoUserData]
  /\ emitted = {}

Init ==
  /\ InitTeam
  /\ InitProject
  /\ InitJudge
  /\ InitAuth
  /\ InitMessage
  /\ InitNotify
  /\ InitSocket
  /\ InitHackathon

\* ---------------------------------------------------------- specifications
\* the roster handlers, without updateTeam
NextTeamCore ==
  \/ \E q \in CreateRequests : CreateTeam(q[1], q[2], q[3])
  \/ \E q \in InviteRequests : InviteToTeam(q[1], q[2], q[3], q[4])
  \/ \E q \in RespondRequests : RespondToInvitation(q[1], q[2], q[3])
  \/ \E q \in JoinRequests : RequestToJoin(q[1], q[2])
  \/ \E q \in RemoveRequests : RemoveMember(q[1], q[2], q[3])
  \/ \E q \in LeaveRequests : LeaveTeam(q[1], q[2])

\* inviteToTeam interleaved at its await with the requests of the invited
\* account
NextTeamConc ==
  \/ \E q \in CreateRequests : CreateTeam(q[1], q[2], q[3])
  \/ \E q \in InviteRequests : InviteLoad(q[1], q[2], q[3], q[4])
  \/ InviteSave
  \/ \E q \in RespondRequests : RespondToInvitation(q[1], q[2], q[3])
  \/ \E q \in JoinRequests : RequestToJoin(q[1], q[2])

SpecTeamConc == Init /\ [][NextTeamConc]_vars

NextTeam ==
  \/ NextTeamCore
  \/ \E q \in UpdateMembersRequests : UpdateTeamMembers(q[1], q[2], q[3])
  \/ \E q \in UpdateMaxRequests : UpdateTeamMaxMembers(q[1], q[2], q[3])
  \/ \E q \in UpdatePublicRequests : UpdateTeamIsPublic(q[1], q[2], q[3])
  \/ \E q \in UpdateLookingRequests : UpdateTeamIsLookingForMembers(q[1], q[2], q[3])

SpecTeamCore == Init /\ [][NextTeamCore]_vars

SpecTeam == Init /\ [][NextTeam]_vars

\* the roster handlers, and updateTeam and deleteTeam with their fan-out
NextNotify ==
  \/ NextTeamCore
  \/ \E q \in UpdateMaxRequests, f \in FailingSets :
       UpdateTeamNotified(q[1], q[2], q[3], f)
  \/ \E q \in DeleteTeamRequests, f \in FailingSets : DeleteTeamNotified(q[1], q[2], f)

SpecNotify == Init /\ [][NextNotify]_vars

\* a project is created and a submission is made for it
NextSubmissionSetup ==
  \/ Tick
  \/ \E q \in CreateProjectRequests : CreateProject(q[1], q[2])
  \/ \E q \in CreateSubmissionRequests : CreateSubmission(q[1], q[2], q[3], q[4])

NextProject ==
  \/ NextSubmissionSetup
  \/ \E q \in UpdateStatusRequests : UpdateProjectStatus(q[1], q[2], q[3])
  \/ \E q \in UpdateDateRequests : UpdateProjectSubmissionDate(q[1], q[2], q[3])
  \/ \E q \in UpdateRepoUrlRequests : UpdateProjectRepoUrl(q[1], q[2], q[3])
  \/ \E q \in UploadRequests : UploadScreenshots(q[1], q[2], q[3])
  \/ \E q \in SubmitRequests : SubmitProject(q[1], q[2])
  \/ \E q \in SubmissionStatusRequests : UpdateSubmissionStatus(q[1], q[2], q[3])
  \/ \E q \in DeleteSubmissionRequests : DeleteSubmission(q[1], q[2])

SpecProject == Init /\ [][NextProject]_vars

\* the project's roster handlers and deleteProject
NextProjectTeam ==
  \/ Tick
  \/ \E q \in CreateProjectRequests : CreateProject(q[1], q[2])
  \/ \E q \in UpdateTeamSizeRequests : UpdateProjectTeamSize(q[1], q[2], q[3])
  \/ \E q \in ProjectMemberRequests, role \in ProjectBodyRoles :
       AddTeamMember(q[1], q[2], q[3], role)
  \/ \E q \in ProjectMemberRequests : RemoveTeamMember(q[1], q[2], q[3])
  \/ \E q \in DeleteProjectRequests : DeleteProject(q[1], q[2])

SpecProjectTeam == Init /\ [][NextProjectTeam]_vars

\* the socket handlers; a team is created so that its room has a member
NextSocket ==
  \/ \E caller \in Users : CreateTeam(caller, Absent, TRUE)
  \/ \E s \in SocketIds, u \in Users : Connection(s, u)
  \/ \E s \in SocketIds, room \in Rooms : JoinRoom(s, room)
  \/ \E s \in SocketIds, room \in Rooms : LeaveRoom(s, room)
  \/ \E s \in SocketIds, room \in Rooms : SendMessage(s, room)
  \/ \E s \in SocketIds, room \in Rooms, event \in {"typing", "stop_typing"} :
       Typing(s, room, event)
  \/ \E s \in SocketIds : TeamUpdate(s)
  \/ \E s \in SocketIds : ProjectUpdate(s)
  \/ \E s \in SocketIds : Ping(s)
  \/ \E s \in SocketIds : Disconnect(s)

SpecSocket == Init /\ [][NextSocket]_vars

\* a hackathon with fixed dates while time passes
NextHackathon ==
  \/ Tick
  \/ \E h \in Boundaries : StoreHackathon(h)
  \/ SaveHackathon

SpecHackathon == Init /\ [][NextHackathon]_vars

\* createSubmission requests interleaved at their awaits, while team members
\* also set the project's status
NextSubmitConc ==
  \/ Tick
  \/ \E q \in CreateProjectRequests : CreateProject(q[1], q[2])
  \/ \E q \in UpdateStatusRequests : UpdateProjectStatus(q[1], q[2], q[3])
  \/ \E r \in Creates, q \in CreateSubmissionRequests :
       SubmissionCheck(r, q[1], q[2], q[3], q[4])
  \/ \E r \in Creates : SubmissionInsert(r)
  \/ \E r \in Creates : SubmissionProjectSave(r)

SpecSubmitConc == Init /\ [][NextSubmitConc]_vars

\* edits of a submission by the project's team
NextVersion ==
  \/ NextSubmissionSetup
  \/ \E q \in UpdateSubmissionRequests : UpdateSubmission(q[1], q[2], q[3])
  \/ \E q \in SubmissionStatusRequests : UpdateSubmissionStatus(q[1], q[2], q[3])

SpecVersion == Init /\ [][NextVersion]_vars

NextJudge ==
  \/ NextSubmissionSetup
  \/ \E q \in JudgeRequests : AddJudgeEvaluation(q[1], q[2], q[3], q[4])

SpecJudge == Init /\ [][NextJudge]_vars

\* evaluations of a submission whose status judges and admins also set
NextReview ==
  \/ NextSubmissionSetup
  \/ \E q \in ReviewRequests : AddJudgeEvaluation(q[1], q[2], q[3], q[4])
  \/ \E q \in SubmissionStatusRequests : UpdateSubmissionStatus(q[1], q[2], q[3])

SpecReview == Init /\ [][NextReview]_vars

NextJudgeConc ==
  \/ NextSubmissionSetup
  \/ \E q \in JudgeRequests : JudgeLoad(q[1], q[2], q[3], q[4])
  \/ \E j \in Users : JudgeSave(j)

SpecJudgeConc == Init /\ [][NextJudgeConc]_vars

NextAuth ==
  \/ Tick
  \/ \E r \in Regs, e \in RegisterEmails, pw \in Passwords, v \in BOOLEAN :
       RegisterCheck(r, e, pw, v)
  \/ \E r \in Regs : RegisterCreate(r)
  \/ \E e \in LoginEmails, pw \in Passwords \cup {NoValue} : Login(e, pw)
  \/ \E tok \in TokenValues, pw \in Passwords \cup {NoValue} : DeleteAccount(tok, pw)
  \/ \E u \in AccountIds : GenerateRefreshToken(u)
  \/ \E tok \in TokenValues : RefreshAccessToken(tok)
  \/ \E tok \in TokenValues : SocketConnect(tok)
  \/ \E u \in AccountIds : SocketDisconnect(u)

SpecAuth == Init /\ [][NextAuth]_vars

NextMessage ==
  \/ \E p \in ParentIds, th \in BOOLEAN : CreateMessage(p, th)
  \/ \E id \in MessageIds, u \in Reactors, e \in Emojis : AddReaction(id, u, e)
  \/ \E id \in MessageIds, u \in Reactors, e \in Emojis : RemoveReaction(id, u, e)
  \/ \E id \in MessageIds, u \in Reactors : MarkAsRead(id, u)
  \/ \E id \in MessageIds : MarkAsDelivered(id)
  \/ \E id \in MessageIds : PinMessage(id)
  \/ \E id \in MessageIds : UnpinMessage(id)
  \/ \E id \in MessageIds : EditMessage(id)
  \/ \E id \in MessageIds : DeleteMessage(id)

SpecMessage == Init /\ [][NextMessage]_vars

\* ================================================================ claims
\* Requests addressed to the stored team
ToTeam(Requests) == {q \in Requests : q[2] = TeamId}

\* C1: after any sequence of createTeam, inviteToTeam, respondToInvitation,
\* requestToJoin, removeMember and leaveTeam, the number of accepted members
\* never exceeds maxMembers.  (respondToInvitation accepts without looking
\* at the capacity, so two pending slots can both be accepted.)
C1_AcceptedWithinMax ==
  teamExists => memberCount(team.members) <= team.maxMembers

\* C2: a team created by createTeam always has an accepted member that
\* carries the leader flag.  (updateTeam assigns a members array of the
\* request body to the document.)
C2_AcceptedLeaderExists ==
  teamExists =>
    \E i \in DOMAIN team.members :
      team.members[i].isLeader /\ team.members[i].invitationStatus = "accepted"

AtCapacity == teamExists /\ memberCount(team.members) = team.maxMembers

SoleAcceptedLeader(c) ==
  /\ teamExists
  /\ \E i \in DOMAIN team.members :
       /\ team.members[i].userId = c
       /\ team.members[i].isLeader
       /\ team.members[i].invitationStatus = "accepted"
       /\ \A j \in DOMAIN team.members :
            (team.members[j].isLeader /\ team.members[j].invitationStatus = "accepted")
              => j = i

\* C9: removeMember aimed by the leader at their own slot, and leaveTeam
\* called by the leader, fail with an error and leave the members list
\* unchanged whenever that slot is the only accepted slot with the leader flag.
C9_SoleLeaderStays ==
  \A c \in Users :
    SoleAcceptedLeader(c) =>
      LET rm == removeMemberHandler(team, teamExists, c, TeamId, c)
          lv == leaveTeam(team, teamExists, c, TeamId)
      IN /\ rm.error # "" /\ rm.doc.members = team.members
         /\ lv.error # "" /\ lv.doc.members = team.members

\* a sole leader among several accepted members is refused
C9_Witness ==
  \E c \in Users :
    /\ SoleAcceptedLeader(c)
    /\ memberCount(team.members) >= 2
    /\ leaveTeam(team, teamExists, c, TeamId).error =
         "Cannot leave as the only team leader. Promote another leader first."
    /\ removeMemberHandler(team, teamExists, c, TeamId, c).error =
         "Cannot remove the only team leader"

\* the first slot of account u (0 if none), and whether some slot of u has the flag
FirstSlot(u) ==
  IF \E i \in DOMAIN team.members : team.members[i].userId = u
    THEN CHOOSE i \in DOMAIN team.members :
           /\ team.members[i].userId = u
           /\ \A j \in DOMAIN team.members : team.members[j].userId = u => i <= j
    ELSE 0

HasLeaderFlag(u) ==
  \E i \in DOMAIN team.members : team.members[i].userId = u /\ team.members[i].isLeader

IsAccepted(u) ==
  \E i \in DOMAIN team.members :
    team.members[i].userId = u /\ team.members[i].invitationStatus = "accepted"

Without(ms, i) == SubSeq(ms, 1, i - 1) \o SubSeq(ms, i + 1, Len(ms))

AcceptedIn(ms) == Cardinality({i \in DOMAIN ms : ms[i].invitationStatus = "accepted"})

C3_SubmissionDateSetOnce ==
  firstSubmissionDate # NoDate => project.submissionDate = firstSubmissionDate

\* the sum of criterion c over the judges 1..n of a list
RECURSIVE SumOfCriterion(_, _, _)
SumOfCriterion(js, c, n) ==
  IF n = 0 THEN 0 ELSE SumOfCriterion(js, c, n - 1) + js[n].scores[c]

SumOfAll(js) ==
  SumOfCriterion(js, "innovation", Len(js)) + SumOfCriterion(js, "execution", Len(js))
    + SumOfCriterion(js, "presentation", Len(js)) + SumOfCriterion(js, "impact", Len(js))
    + SumOfCriterion(js, "completeness", Len(js))

\* the stored numbers of s are the means over its stored judges: x = a / b
\* is written x.num * b = a * x.den
MeanOfMeans(s) ==
  LET n == Len(s.judges) IN
  /\ \A c \in Criteria : s.scores[c].num * n = SumOfCriterion(s.judges, c, n) * s.scores[c].den
  /\ s.totalScore.num * n = SumOfAll(s.judges) * s.totalScore.den
  /\ s.averageScore.num * (5 * n) = SumOfAll(s.judges) * s.averageScore.den

ExampleJudges(s) ==
  /\ Len(s.judges) = 2
  /\ s.judges[1].scores = Vec(8, 7, 9, 6, 8)
  /\ s.judges[2].scores = Vec(6, 9, 7, 8, 7)

\* C4: after any sequence of addJudgeEvaluation calls by distinct judges,
\* each stored criterion score is the arithmetic mean of that criterion over
\* all recorded judges, totalScore is the sum of the five criterion means and
\* averageScore is their mean; judges (8,7,9,6,8) and (6,9,7,8,7) give the
\* criterion means (7,8,8,7,7.5) and averageScore 7.5.
C4_ScoresAreMeanOfMeans ==
  (submissionExists /\ Len(submission.judges) > 0) =>
    /\ MeanOfMeans(submission)
    /\ Len(submission.judges) = savedCount
    /\ \A i, j \in DOMAIN submission.judges :
         submission.judges[i].judgeId = submission.judges[j].judgeId => i = j
    /\ ExampleJudges(submission) =>
         /\ submission.scores["innovation"] = [num |-> 7, den |-> 1]
         /\ submission.scores["execution"] = [num |-> 8, den |-> 1]
         /\ submission.scores["presentation"] = [num |-> 8, den |-> 1]
         /\ submission.scores["impact"] = [num |-> 7, den |-> 1]
         /\ submission.scores["completeness"] = [num |-> 15, den |-> 2]
         /\ submission.totalScore = [num |-> 75, den |-> 2]
         /\ submission.averageScore = [num |-> 15, den |-> 2]

\* the two judges of the example have been recorded, then a third
C4_Witness ==
  /\ submissionExists
  /\ Len(submission.judges) = 3
  /\ submission.judges[1].scores = Vec(8, 7, 9, 6, 8)
  /\ submission.judges[2].scores = Vec(6, 9, 7, 8, 7)
  /\ submission.judges[3].scores = Vec(10, 10, 10, 10, 10)
  /\ submission.scores["completeness"] = [num |-> 25, den |-> 3]
  /\ submission.status = "under_review"

\* C5: when evaluations by two different judges are handled concurrently,
\* each handler loading the submission before the other has saved, both
\* evaluations end up in the stored judges list while the stored scores can
\* differ from the mean-of-means over that list; the stored numbers differ
\* from it only after a save that wrote over a list it had not loaded.
C5_LostUpdateOnlyWhenStale ==
  /\ Len(submission.judges) = savedCount
  /\ (submissionExists /\ Len(submission.judges) > 0 /\ ~MeanOfMeans(submission))
       => staleSave

\* both handlers have saved, both judges are stored, and the stored scores
\* are those of the second evaluation alone
C5_Witness ==
  /\ \A j \in Users : handler[j].pc = "idle"
  /\ ExampleJudges(submission)
  /\ staleSave
  /\ submission.averageScore = [num |-> 37, den |-> 5]
  /\ ~MeanOfMeans(submission)

\* C6: of any two register requests carrying the same email, handled one
\* after the other or concurrently, exactly one creates an account and the
\* other fails with 'User already exists'.  (Two requests that both pass the
\* findOne check meet at the unique index, which errorHandler answers
\* 'Duplicate field value entered'.)
C6_SecondRegisterFails ==
  \A r1, r2 \in Regs :
    (/\ r1 # r2
     /\ reg[r1].pc = "done" /\ reg[r2].pc = "done"
     /\ reg[r1].bodyValid /\ reg[r2].bodyValid
     /\ reg[r1].email = reg[r2].email)
    => \/ /\ reg[r1].answer.status = 201
          /\ reg[r2].answer.error = "User already exists"
       \/ /\ reg[r2].answer.status = 201
          /\ reg[r1].answer.error = "User already exists"

\* C7: after deleteAccount has set isActive = false, the account cannot
\* authenticate by any path: no login is answered with it, and a token issued
\* for it is refused by the refresh-token middleware and by the socket
\* handshake.  (Neither of the two looks at isActive.)
C7_DeletedCannotAuthenticate ==
  \A u \in DOMAIN accounts :
    ~accounts[u].isActive =>
      /\ \A e \in LoginEmails, pw \in Passwords : login(accounts, e, pw).userId # u
      /\ \A tok \in tokens :
           tok.userId = u =>
             /\ refreshToken(accounts, tok).error # ""
             /\ socketHandshake(accounts, tok).error # ""

\* the number of pending slots of a roster
PendingIn(ms) == Cardinality({i \in DOMAIN ms : ms[i].invitationStatus = "pending"})

\* C11: a pending slot is added to a team only by a caller who is an accepted
\* member of it and only while accepted-count < maxMembers; a request from a
\* non-member, or from a caller whose own slot is pending or rejected, adds
\* no slot and leaves the team unchanged.  (requestToJoin lets any account
\* that is not on the roster, or whose slot is rejected, push a pending slot
\* for itself.)
C11_PendingOnlyByMember ==
  teamExists =>
    /\ \A q \in ToTeam(InviteRequests) :
         LET r == inviteToTeam(team, teamExists, q[1], q[2], q[3], q[4]) IN
           IF IsAccepted(q[1]) /\ AcceptedIn(team.members) < team.maxMembers
             THEN TRUE
             ELSE r.doc = team
    /\ \A q \in ToTeam(JoinRequests) :
         LET r == requestToJoin(team, teamExists, q[1], q[2]) IN
           IF IsAccepted(q[1]) /\ AcceptedIn(team.members) < team.maxMembers
             THEN TRUE
             ELSE r.doc = team

\* the inviteToTeam half of C11 on its own
C11_InviteOnlyByMember ==
  teamExists =>
    \A q \in ToTeam(InviteRequests) :
      LET r == inviteToTeam(team, teamExists, q[1], q[2], q[3], q[4]) IN
        (PendingIn(r.doc.members) > PendingIn(team.members) \/ r.doc # team) =>
          (IsAccepted(q[1]) /\ AcceptedIn(team.members) < team.maxMembers)

\* an invitation of an account whose first slot is 'rejected' resets that slot
C12_ReinviteResetsSlot ==
  teamExists =>
    \A q \in ToTeam(InviteRequests) :
      LET i == FirstSlot(q[3])
          r == inviteToTeam(team, teamExists, q[1], q[2], q[3], q[4])
      IN (i # 0 /\ team.members[i].invitationStatus = "rejected" /\ r.error = "") =>
           r.doc.members = [team.members EXCEPT ![i].invitationStatus = "pending",
                                                ![i].role = roleOrDefault(q[4])]

\* a step that keeps the roster's length moves a pending slot to another
\* status only as the respondToInvitation of the slot's account
C12_PendingMovesByResponse ==
  (teamExists /\ Len(team'.members) >= Len(team.members)) =>
    \A i \in DOMAIN team.members :
      (team.members[i].invitationStatus = "pending"
         /\ team'.members[i].invitationStatus # "pending") =>
        \E a \in BOOLEAN :
          team' = respondToInvitation(team, teamExists, team.members[i].userId,
                                      TeamId, a).doc

\* C12: inviting an account whose existing slot is 'rejected' sets that same
\* slot back to 'pending' with the newly given role and adds no second slot;
\* from 'pending' the slot moves to 'accepted' or 'rejected' only by that
\* account's own response.  (updateTeam stores a members array of the request
\* body, in which a leader can write any status into any slot.)
C12_ReinviteThenOwnResponse ==
  []C12_ReinviteResetsSlot /\ [][C12_PendingMovesByResponse]_vars

\* the second half of C12 on its own
C12_OnlyOwnResponse == [][C12_PendingMovesByResponse]_vars

C14_UnderReviewOnEvaluation ==
  submissionExists =>
    \A q \in JudgeRequests :
      LET r == addJudgeEvaluationHandler(submission, submissionExists,
                                         q[1], q[2], q[3], q[4])
          d == saveSubmission(submission, submission, r.doc)
      IN r.error = "" =>
           /\ Len(d.judges) = Len(submission.judges) + 1
           /\ d.status = IF submission.status = "submitted" THEN "under_review"
                         ELSE submission.status

\* an evaluated submission that was moved to 'accepted' takes one more
\* evaluation and stays 'accepted'
C14_Witness ==
  /\ submissionExists
  /\ submission.status = "accepted"
  /\ Len(submission.judges) = 1
  /\ \E q \in JudgeRequests :
       LET r == addJudgeEvaluationHandler(submission, submissionExists,
                                          q[1], q[2], q[3], q[4])
       IN r.error = "" /\ r.doc.status = "accepted" /\ Len(r.doc.judges) = 2

\* C15: at most one submission exists for a project after any sequence of
\* createSubmission requests, two of them handled concurrently and one made
\* after the project's status was moved away from 'submitted' and
\* 'under_review' included.
C15_OneSubmissionPerProject ==
  /\ submissionCount <= 1
  /\ submissionExists = (submissionCount = 1)

\* one request has inserted the submission and not yet saved the project,
\* while another request has passed its checks
C15_Witness ==
  /\ submissionCount = 1
  /\ \E r1, r2 \in Creates :
       /\ creating[r1].pc = "inserted"
       /\ creating[r2].pc = "checked"
       /\ project.status # "submitted"

\* a request passed its checks after the project left 'submitted'
C15_MovedAway ==
  /\ submissionCount = 1
  /\ firstSubmissionDate # NoDate
  /\ project.status = "draft"
  /\ \A r \in Creates : creating[r].pc # "inserted"
  /\ \E r \in Creates : creating[r].pc = "checked"

\* a successful updateSubmission appends one entry with the pre-update data
C16_UpdateAppendsOne ==
  submissionExists =>
    \A q \in UpdateSubmissionRequests :
      LET r == updateSubmission(project, projectExists, submission, submissionExists,
                                q[1], q[2], q[3], now)
      IN r.error = "" =>
           r.doc.previousVersions =
             Append(submission.previousVersions, VersionEntry(submission))

\* the same for bodies that carry no previousVersions
C16_UpdateAppendsOneUnlessAssigned ==
  submissionExists =>
    \A q \in UpdateSubmissionRequests :
      LET r == updateSubmission(project, projectExists, submission, submissionExists,
                                q[1], q[2], q[3], now)
      IN (r.error = "" /\ q[3].previousVersions = "absent") =>
           /\ r.doc.previousVersions =
                Append(submission.previousVersions, VersionEntry(submission))
           /\ r.doc.version = submission.version + 2

\* a step keeps every entry of previousVersions where it was
C16_EntriesKept ==
  /\ Len(submission'.previousVersions) >= Len(submission.previousVersions)
  /\ \A i \in DOMAIN submission.previousVersions :
       submission'.previousVersions[i] = submission.previousVersions[i]

\* C16: each successful updateSubmission appends exactly one entry holding
\* the pre-update title, summary, assets, scores and status to
\* previousVersions, and no operation removes or alters an entry already in
\* the list.  (updateSubmission assigns the request body to the document
\* after saveVersion, so a body that carries previousVersions replaces the
\* list.)
C16_VersionsAppendOnly ==
  []C16_UpdateAppendsOne /\ [][C16_EntriesKept]_vars

\* the messages whose parentMessageId refers to message i
Replies(i) == {j \in DOMAIN messages : messages[j].parentMessageId = i}

\* C17: after any sequence of message creations and of later saves of
\* existing messages (editMessage, addReaction, removeReaction, markAsRead,
\* markAsDelivered, pinMessage, deleteMessage), a parent message's
\* threadCount equals the number of messages whose parentMessageId refers
\* to it.  (The pre-save hook increments the parent on every save of a reply,
\* not only on its creation.)
C17_ThreadCountIsReplies ==
  \A i \in DOMAIN messages : messages[i].threadCount = Cardinality(Replies(i))

\* the same for replies created with isThread false: the count is never
\* below the number of replies
C17_ThreadCountAtLeastReplies ==
  \A i \in DOMAIN messages :
    (\A j \in Replies(i) : ~messages[j].isThread) =>
      messages[i].threadCount >= Cardinality(Replies(i))

\* without replies created with isThread true, the count is still exceeded
C17_ThreadCountIsRepliesNoThread ==
  (\A j \in DOMAIN messages : ~messages[j].isThread) => C17_ThreadCountIsReplies

\* C18: if one notification insert fails during the fan-out of a
\* state-changing request, the failure is ignored: the request still answers
\* with success and the primary mutation stays persisted.  (The handlers await
\* Promise.all of the inserts without a catch, so the rejection becomes the
\* request's answer.)
C18_FanOutFailureIgnored ==
  teamExists =>
    /\ \A q \in ToTeam(UpdateMaxRequests), f \in FailingSets :
         LET r == updateTeam(team, teamExists, q[1], q[2], [team EXCEPT !.maxMembers = q[3]])
             a == updateTeamNotified(team, teamExists, q[1], q[2],
                                     [team EXCEPT !.maxMembers = q[3]], f)
         IN r.error = "" => (a.error = "" /\ a.status = 200 /\ a.doc = r.doc)
    /\ \A q \in ToTeam(DeleteTeamRequests), f \in FailingSets :
         LET r == deleteTeam(team, teamExists, q[1], q[2])
             a == deleteTeamNotified(team, teamExists, q[1], q[2], f)
         IN r.error = "" => (a.error = "" /\ a.status = 200 /\ a.doc = r.doc)

\* what holds of a fan-out: the primary mutation is stored whatever the
\* inserts do, the other inserts are stored, and the answer is an error
\* exactly when an insert for one of the recipients fails
C18_MutationKeptAnswerFails ==
  teamExists =>
    \A q \in ToTeam(UpdateMaxRequests), f \in FailingSets :
      LET r == updateTeam(team, teamExists, q[1], q[2], [team EXCEPT !.maxMembers = q[3]])
          a == updateTeamNotified(team, teamExists, q[1], q[2],
                                  [team EXCEPT !.maxMembers = q[3]], f)
          to == updateTeamRecipients(r.doc, q[1])
      IN r.error = "" =>
           /\ a.doc = r.doc
           /\ a.stored = to \ f
           /\ (a.error # "") = (to \cap f # {})
           /\ (a.error # "") => a.status = 500

\* the stage of a project status along draft, in_progress, submitted,
\* under_review, then the final tags
Stage(st) ==
  CASE st = "draft" -> 0
    [] st = "in_progress" -> 1
    [] st = "submitted" -> 2
    [] st = "under_review" -> 3
    [] OTHER -> 4

\* a step moves the status of the stored project to the same or a later
\* stage, and leaves a final status as it is
C19_StepForward ==
  projectExists =>
    /\ Stage(project'.status) >= Stage(project.status)
    /\ Stage(project.status) = 4 => project'.status = project.status

\* C19: a project's status only moves forward along draft, in_progress,
\* submitted, under_review, then one of selected/winner/completed/rejected:
\* no operation moves it to an earlier stage or out of a final stage.
\* (updateProject stores a status of the request body, updateSubmissionStatus
\* copies any submission status to the project, and submitProject and
\* createSubmission set 'submitted' whatever the status was.)
C19_StatusOnlyForward == [][C19_StepForward]_vars

\* C20: updateSubmissionStatus and deleteSubmission save the submission and
\* then the project as two writes with no rollback: when the project save
\* fails (the new status is valid for a submission but not for a project),
\* the request answers with an error while the submission keeps the new
\* status and the project keeps the old one.
C20_NoRollback ==
  (submissionExists /\ projectExists) =>
    /\ \A q \in SubmissionStatusRequests :
         (q[2] = SubmissionId /\ q[1] \in {"admin", "judge"}
            /\ q[3] \in SubmissionStatuses) =>
           LET r == updateSubmissionStatus(project, projectExists, submission,
                                           submissionExists, q[1], q[2], q[3], now)
           IN IF q[3] \in ProjectStatuses
                THEN /\ r.error = ""
                     /\ r.submission.status = q[3]
                     /\ r.project.status = q[3]
                ELSE /\ r.error # "" /\ r.status = 400
                     /\ r.submission.status = q[3]
                     /\ r.project = project
    /\ LET r == deleteSubmission(project, projectExists, submission, submissionExists,
                                 "admin", SubmissionId, now)
       IN /\ r.error # "" /\ r.status = 400
          /\ r.submission.status = "rejected"
          /\ r.project = project

\* the submission was moved to 'accepted', which the project's enum does not
\* have: the project is still 'submitted'
C20_Witness ==
  /\ submissionExists
  /\ projectExists
  /\ submission.status = "accepted"
  /\ project.status = "submitted"
  /\ deleteSubmission(project, projectExists, submission, submissionExists,
                      "admin", SubmissionId, now).submission.status = "rejected"

\* C21: deleteProject called by a project member whose role is 'Team Lead'
\* soft-deletes the project: the request succeeds, the record stays stored
\* with status 'deleted' and isPublic false, and every team member gets a
\* 'Project Deleted' notification.
C21_LeaderSoftDeletes ==
  projectExists =>
    \A u \in Users :
      isProjectLeader(project, u) =>
        LET r == deleteProjectNotified(project, projectExists, u, ProjectId, now) IN
          /\ r.error = "" /\ r.status = 200
          /\ r.doc.status = "deleted"
          /\ ~r.doc.isPublic
          /\ r.stored = {<<m, "Project Deleted">> : m \in teamUsers(project)}

\* what the handler does instead: 'deleted' is no status of the schema, the
\* save is refused and nothing is stored
C21_LeaderDeleteRefused ==
  projectExists =>
    \A u \in Users :
      isProjectLeader(project, u) =>
        LET r == deleteProjectNotified(project, projectExists, u, ProjectId, now) IN
          /\ r.error = "ValidationError" /\ r.status = 400
          /\ r.doc = project
          /\ r.stored = {}

\* C23: addTeamMember called by a project team member for an existing user
\* who is not yet on the team adds that user whenever the team has fewer than
\* the 10 members the schema allows, in particular on a project just created
\* by createProject; afterwards teamSize equals the length of project.team.
C23_AddsBelowSchemaLimit ==
  projectExists =>
    \A caller \in Users, u \in Users, role \in ProjectBodyRoles :
      (/\ isTeamMember(project, caller)
       /\ ~isTeamMember(project, u)
       /\ Len(project.team) < MaxTeamSize) =>
        LET r == addTeamMember(project, projectExists, caller, ProjectId, u, role, now) IN
          /\ r.error = ""
          /\ isTeamMember(r.doc, u)
          /\ r.doc.teamSize = Len(r.doc.team)

\* what holds: the user is added exactly when the roster is shorter than the
\* stored teamSize, and then teamSize is the new length
C23_AddsBelowTeamSize ==
  projectExists =>
    \A caller \in Users, u \in Users, role \in ProjectBodyRoles :
      (isTeamMember(project, caller) /\ ~isTeamMember(project, u)) =>
        LET r == addTeamMember(project, projectExists, caller, ProjectId, u, role, now) IN
          IF Len(project.team) < project.teamSize
            THEN /\ r.error = ""
                 /\ isTeamMember(r.doc, u)
                 /\ r.doc.teamSize = Len(r.doc.team)
            ELSE r.error = "Team size limit reached" /\ r.doc = project

\* the step closes socket s
Disconnects(s) == sockets[s].open /\ ~sockets'[s].open

\* C22: when a connected user's socket disconnects, every room that user
\* had joined and not left is sent a ROOM_LEFT event naming that user, and
\* the user's entry is removed from the connected-users registry.
C22_DisconnectStep ==
  \A s \in SocketIds :
    Disconnects(s) =>
      LET u == sockets[s].user IN
        /\ \A r \in sockets[s].rooms :
             \A t \in roomSockets(sockets, r) \ {s} :
               Event("room_left", r, u, t) \in emitted'
        /\ ~isUserConnected(connectedUsers', u)

C22_DisconnectAnnounced == [][C22_DisconnectStep]_vars

\* what holds: the entry is removed and nothing is emitted
C22_DisconnectSilentStep ==
  \A s \in SocketIds :
    Disconnects(s) =>
      /\ ~isUserConnected(connectedUsers', sockets[s].user)
      /\ emitted' = {}

C22_DisconnectSilent == [][C22_DisconnectSilentStep]_vars

openSockets(u) == {s \in SocketIds : sockets[s].open /\ sockets[s].user = u}

\* C28: isUserConnected(u) is true exactly when user u has at least one open
\* authenticated socket, for any interleaving of connects and disconnects,
\* including several simultaneous sockets of the same user.
C28_ConnectedIffOpenSocket ==
  \A u \in Users : isUserConnected(connectedUsers, u) <=> openSockets(u) # {}

\* what holds: a user the registry holds has an open socket
C28_ConnectedHasOpenSocket ==
  \A u \in Users : isUserConnected(connectedUsers, u) => openSockets(u) # {}

\* the users who belong to the team or project a room is keyed by
roomMembers(room) ==
  IF room = TeamRoom
    THEN {u \in Users : teamExists /\ isMember(team.members, u)}
    ELSE {u \in Users : projectExists /\ isTeamMember(project, u)}

\* C29: a chat message or update event for a room team_<id> or project_<id>
\* is delivered only to sockets of users who belong to that team or project:
\* a socket can join a room, and can send into a room, only if its user is a
\* member of the team or project the room is keyed by.
C29_RoomsOnlyForMembers ==
  teamExists =>
    /\ \A s \in SocketIds :
         (sockets[s].open /\ TeamRoom \in sockets[s].rooms) =>
           sockets[s].user \in roomMembers(TeamRoom)
    /\ \A e \in emitted :
         (e.room = TeamRoom /\ e.event \in {"receive_message", "team_update"}) =>
           /\ sockets[e.to].user \in roomMembers(TeamRoom)
           /\ e.about \in roomMembers(TeamRoom)

\* the place of a time-derived status in the order upcoming,
\* registration_open, in_progress, judging, completed
StatusRank(st) ==
  CASE st = "upcoming" -> 0
    [] st = "registration_open" -> 1
    [] st = "in_progress" -> 2
    [] st = "judging" -> 3
    [] OTHER -> 4

\* a save of a non-cancelled hackathon stores the time-derived status
C30_SavePersistsDerived ==
  (hackathonExists /\ hackathon.status # "cancelled") =>
    /\ hackathonPreSave(hackathon, now).status = currentStatus(hackathon, now)
    /\ getCurrentStatus(hackathon, now) = currentStatus(hackathon, now)

C30_ForwardStep ==
  hackathonExists =>
    StatusRank(currentStatus(hackathon', now')) >= StatusRank(currentStatus(hackathon, now))

\* C30: with fixed, chronologically ordered date boundaries (judging dates
\* set or left null), a hackathon's currentStatus never moves backwards in
\* the order upcoming, registration_open, in_progress, judging, completed as
\* wall-clock time advances, and a save of a non-cancelled hackathon persists
\* exactly that time-derived status.
C30_StatusFollowsClock == []C30_SavePersistsDerived /\ [][C30_ForwardStep]_vars

\* C25: a team's members list never contains two slots for the same userId,
\* under any interleaving of concurrent inviteToTeam and requestToJoin
\* requests that target the same account on the same team.
C25_OneSlotPerUser ==
  \A i, j \in DOMAIN team.members :
    team.members[i].userId = team.members[j].userId => i = j

\* u holds a pending slot that an invitation created: requestToJoin is the
\* only handler that stores the role 'Requested'
InvitedPending(ms, u) ==
  \E i \in DOMAIN ms :
    /\ ms[i].userId = u
    /\ ms[i].invitationStatus = "pending"
    /\ ms[i].role # "Requested"

C26_AcceptStep ==
  teamExists =>
    \A u \in Users :
      (isMember(team'.members, u) /\ ~isMember(team.members, u)) =>
        InvitedPending(team.members, u)

\* C26: a user becomes an accepted member of a team only by creating the
\* team or by responding to a pending slot that an accepted member of the
\* team created for them; a pending slot created by the user's own
\* requestToJoin cannot be turned into accepted membership by that same user.
C26_AcceptedOnlyByInvitation == [][C26_AcceptStep]_vars

\* what holds: a user becomes an accepted member only from a pending slot of
\* their own, whoever created it
C26_AcceptFromPendingStep ==
  teamExists =>
    \A u \in Users :
      (isMember(team'.members, u) /\ ~isMember(team.members, u)) =>
        findPendingIndex(team.members, u) # 0

C26_AcceptedOnlyFromPending == [][C26_AcceptFromPendingStep]_vars

\* C24: getTeam returns a private team (isPublic = false) to a caller who is
\* an accepted member of it and answers 403 'Not authorized to view this
\* team' to every other caller, including a caller with no authenticated
\* user.
C24_PrivateTeamForMembersOnly ==
  (teamExists /\ ~team.isPublic) =>
    \A caller \in Users \cup {NoUser} :
      LET r == getTeam(team, teamExists, caller, TeamId) IN
        IF caller # NoUser /\ isMember(team.members, caller)
          THEN r.status = 200 /\ r.error = ""
          ELSE r.status = 403 /\ r.error = "Not authorized to view this team"

\* what holds: nobody is given a private team; the answer is 500 when the
\* team has a slot and 403 when it has none
C24_PrivateTeamForNobody ==
  (teamExists /\ ~team.isPublic) =>
    \A caller \in Users \cup {NoUser} :
      LET r == getTeam(team, teamExists, caller, TeamId) IN
        IF Len(team.members) = 0 THEN r.status = 403 ELSE r.status = 500

\* the judging fields and the status of a submission
JudgingFields(s) ==
  [judges |-> s.judges, scores |-> s.scores, totalScore |-> s.totalScore,
   averageScore |-> s.averageScore, status |-> s.status]

\* C27: an updateSubmission request from a project team member leaves the
\* submission's judging fields (judges, scores, totalScore, averageScore,
\* ranking) and its status unchanged, whatever fields the request body
\* carries.
C27_UpdateKeepsJudging ==
  submissionExists =>
    \A q \in UpdateSubmissionRequests :
      LET r == updateSubmission(project, projectExists, submission, submissionExists,
                                q[1], q[2], q[3], now)
      IN r.error = "" => JudgingFields(r.doc) = JudgingFields(submission)

\* what holds: the fields are kept when the body names none of them
C27_UpdateKeepsJudgingUnlessAssigned ==
  submissionExists =>
    \A q \in UpdateSubmissionRequests :
      LET r == updateSubmission(project, projectExists, submission, submissionExists,
                                q[1], q[2], q[3], now)
      IN (r.error = "" /\ q[3].status = NoValue /\ q[3].judges = "absent") =>
           JudgingFields(r.doc) = JudgingFields(submission)
====
